---- MODULE Spec2Model ----
(***************************************************************************)
(* ZlibBoost Liberty parser API: extraction of a Liberty attribute tree    *)
(* into the CellInfo data model (lib_parser_api.cpp) and patching of a     *)
(* tree from a JSON document (lib_modify_api.cpp).                         *)
(*                                                                         *)
(* Representation.                                                         *)
(*  - A double is a fixed-point decimal: the integer n stands for          *)
(*    n * 10^-FracDigits.  The modelled values stay below 10^6 in          *)
(*    magnitude, where operator<< (default precision 6, %g style) prints   *)
(*    fixed notation.                                                      *)
(*  - A C string that the LUT codec reads or writes is a sequence of       *)
(*    one-character strings; names and keys are TLA+ strings.              *)
(*  - std::optional<double> is a sequence of length 0 or 1.                *)
(*  - A group of the si2dr tree is a record                                *)
(*      [type, names, attrs, groups]                                       *)
(*    with attrs a function from attribute names to attribute values.      *)
(*  - Every si2dr call stores its own status in *err, so err always holds  *)
(*    the status of the last call made.                                    *)
(***************************************************************************)
EXTENDS Integers, Sequences, FiniteSets, TLC

VARIABLES
    pc,               \* position of the running entry point
    op,               \* "none", "modify" or "parse"
    originalLibFile,  \* content of the Liberty file read: a group, or Unreadable
    jsonFile,         \* content of the patch document: a JSON object, Missing or Malformed
    env,              \* what the tree library and the file system refuse in this run
    process,          \* parseLibertyAndGetCells: process argument
    dumpJsonFile,     \* parseLibertyAndGetCells: dumpJsonFile argument
    tree,             \* si2dr library state: the sequence of top-level groups
    cells,            \* std::vector<CellInfo> cells
    pvt,              \* PVT pvt
    err,              \* si2drErrorT err
    result,           \* value returned by modifyLibertyFile
    outputLibFile,    \* content of the written Liberty file
    dumpOut,          \* content of the written JSON dump
    calls,            \* si2dr life-cycle calls made so far
    iters,            \* iterators obtained from the tree library, and released
    vec,              \* codec: the floats given to the row encoder
    encoded,          \* codec: the string written by the patcher
    decoded,          \* codec: what the extractor reads back
    cpc               \* codec: position

runVars == <<pc, op, originalLibFile, jsonFile, env, process, dumpJsonFile, tree,
             cells, pvt, err, result, outputLibFile, dumpOut, calls, iters>>
codecVars == <<vec, encoded, decoded, cpc>>
vars == <<runVars, codecVars>>

-----------------------------------------------------------------------------
(* Bounds of the model *)

MaxCells == 2
MaxPatchCells == 2
MaxLen == 3
FracDigits == 3

-----------------------------------------------------------------------------
(* Doubles and their text form *)

RECURSIVE Pow10(_)
Pow10(k) == IF k = 0 THEN 1 ELSE 10 * Pow10(k - 1)

Unit == Pow10(FracDigits)

\* std::ostringstream's default floatfield precision
Precision == 6

Digits == <<"0", "1", "2", "3", "4", "5", "6", "7", "8", "9">>
DigitChar(d) == Digits[d + 1]
IsDigit(c) == \E d \in 0..9 : Digits[d + 1] = c
DigitVal(c) == CHOOSE d \in 0..9 : Digits[d + 1] = c

RECURSIVE NumDigits(_)
NumDigits(a) == IF a < 10 THEN 1 ELSE 1 + NumDigits(a \div 10)

RECURSIVE NatToChars(_)
NatToChars(a) ==
    IF a < 10 THEN <<DigitChar(a)>>
    ELSE NatToChars(a \div 10) \o <<DigitChar(a % 10)>>

RECURSIVE PadDigits(_, _)
PadDigits(a, w) ==
    IF w = 0 THEN <<>> ELSE PadDigits(a \div 10, w - 1) \o <<DigitChar(a % 10)>>

RECURSIVE StripZeros(_)
StripZeros(s) ==
    IF s = <<>> THEN <<>>
    ELSE IF s[Len(s)] = "0" THEN StripZeros(SubSeq(s, 1, Len(s) - 1))
    ELSE s

\* rounding of |x| to Precision significant digits (round to nearest, ties to even)
RoundSig(a) ==
    IF NumDigits(a) <= Precision THEN a
    ELSE LET p == Pow10(NumDigits(a) - Precision)
             q == a \div p
             r == a % p
             up == (2 * r > p) \/ (2 * r = p /\ q % 2 = 1)
         IN  (IF up THEN q + 1 ELSE q) * p

\* oss << double
FormatDouble(x) ==
    IF x = 0 THEN <<"0">>
    ELSE LET a == RoundSig(IF x < 0 THEN -x ELSE x)
             frac == StripZeros(PadDigits(a % Unit, FracDigits))
         IN  (IF x < 0 THEN <<"-">> ELSE <<>>)
             \o NatToChars(a \div Unit)
             \o (IF frac = <<>> THEN <<>> ELSE <<".">> \o frac)

\* the loop that joins the values of one row with ", "
RECURSIVE EncodeRow(_)
EncodeRow(row) ==
    IF row = <<>> THEN <<>>
    ELSE IF Len(row) = 1 THEN FormatDouble(row[1])
    ELSE FormatDouble(row[1]) \o <<",", " ">> \o EncodeRow(Tail(row))

IsSpace(c) == c \in {" ", "\n", "\t"}

RECURSIVE SkipSpace(_)
SkipSpace(s) ==
    IF s # <<>> /\ IsSpace(s[1]) THEN SkipSpace(Tail(s)) ELSE s

RECURSIVE TakeDigits(_)
TakeDigits(s) ==
    IF s # <<>> /\ IsDigit(s[1]) THEN <<s[1]>> \o TakeDigits(Tail(s)) ELSE <<>>

RECURSIVE DigitsToNat(_)
DigitsToNat(s) ==
    IF s = <<>> THEN 0
    ELSE 10 * DigitsToNat(SubSeq(s, 1, Len(s) - 1)) + DigitVal(s[Len(s)])

\* the first FracDigits fraction digits, as a number of units
FracToUnits(fs) ==
    LET kept == SubSeq(fs, 1, IF Len(fs) < FracDigits THEN Len(fs) ELSE FracDigits)
    IN  DigitsToNat(kept) * Pow10(FracDigits - Len(kept))

\* std::stod: leading white space, a sign, digits, a fraction; what follows the
\* number is ignored; ok = FALSE stands for std::invalid_argument being thrown
stod(token) ==
    LET s1 == SkipSpace(token)
        signed == s1 # <<>> /\ s1[1] \in {"-", "+"}
        neg == s1 # <<>> /\ s1[1] = "-"
        s2 == IF signed THEN Tail(s1) ELSE s1
        ip == TakeDigits(s2)
        s3 == SubSeq(s2, Len(ip) + 1, Len(s2))
        fs == IF s3 # <<>> /\ s3[1] = "." THEN TakeDigits(Tail(s3)) ELSE <<>>
        mag == DigitsToNat(ip) * Unit + FracToUnits(fs)
    IN  IF ip = <<>> /\ fs = <<>> THEN [ok |-> FALSE, v |-> 0]
        ELSE [ok |-> TRUE, v |-> IF neg THEN -mag ELSE mag]

\* index of the first d in s, 0 when there is none
RECURSIVE IndexOf(_, _, _)
IndexOf(s, d, i) ==
    IF i > Len(s) THEN 0 ELSE IF s[i] = d THEN i ELSE IndexOf(s, d, i + 1)

\* while (std::getline(ss, token, d)): the pieces of s between delimiters; a
\* stream already at its end yields no further (empty) piece
RECURSIVE getline(_, _)
getline(s, d) ==
    IF s = <<>> THEN <<>>
    ELSE LET i == IndexOf(s, d, 1)
         IN  IF i = 0 THEN <<s>>
             ELSE <<SubSeq(s, 1, i - 1)>> \o getline(SubSeq(s, i + 1, Len(s)), d)

-----------------------------------------------------------------------------
(* The si2dr attribute tree (si2dr_liberty.h), as far as the two APIs use it *)

Group(type, names, attrs, groups) ==
    [type |-> type, names |-> names, attrs |-> attrs, groups |-> groups]

NoAttrs == [n \in {} |-> 0]

FloatAttr(x) == [k |-> "float", f |-> x]
IntAttr(i) == [k |-> "int", i |-> i]
StringAttr(s) == [k |-> "string", s |-> s]
ComplexAttr(values) == [k |-> "complex", c |-> values]
NullId == [k |-> "null"]

\* one value of a complex attribute: SI2DR_STRING or SI2DR_FLOAT64
StringValue(chars) == [t |-> "string", s |-> chars]
Float64Value(x) == [t |-> "float64", f |-> x]

si2drObjectIsNull(id) == id.k = "null"

si2drGroupFindAttrByName(group, name) ==
    IF name \in DOMAIN group.attrs THEN group.attrs[name] ELSE NullId

\* a char* result: <<>> is the NULL pointer
si2drSimpleAttrGetStringValue(attr) ==
    IF attr.k = "string" THEN <<attr.s>> ELSE <<>>

si2drSimpleAttrGetFloat64Value(attr) ==
    IF attr.k = "float" THEN attr.f ELSE 0

si2drSimpleAttrGetInt32Value(attr) ==
    IF attr.k = "int" THEN attr.i ELSE 0

\* si2drGroupGetNames + si2drIterNextName: the first name, <<>> when there is none
FirstName(group) ==
    IF group.names = <<>> THEN <<>> ELSE <<group.names[1]>>

\* the attribute `name` of `group` now holds `value`
PutAttr(group, name, value) ==
    [group EXCEPT !.attrs = (name :> value) @@ group.attrs]

\* si2drObjectDelete of the attribute `name`
DropAttr(group, name) ==
    [group EXCEPT !.attrs = [n \in (DOMAIN group.attrs) \ {name} |-> group.attrs[n]]]

\* si2drComplexAttrAddStringValue / si2drComplexAttrAddFloat64Value
ComplexAttrAddValue(group, name, value) ==
    PutAttr(group, name, ComplexAttr(Append(group.attrs[name].c, value)))

\* what the library refuses in a run: deleting or creating the attribute `name`
\* of a group of type `type`, and writing the output file
NoFaults == [noDelete |-> {}, noCreate |-> {}, noWrite |-> FALSE]

\* std::find_if: the index of the first element satisfying P, 0 for end()
FindIf(s, P(_)) ==
    IF \E i \in 1..Len(s) : P(s[i])
    THEN CHOOSE i \in 1..Len(s) : P(s[i]) /\ \A j \in 1..(i - 1) : ~P(s[j])
    ELSE 0

-----------------------------------------------------------------------------
(* The data model (lib_parser_api.hpp) *)

DataLut == [index1 |-> <<>>, index2 |-> <<>>, values |-> <<>>]

TimingArc ==
    [when |-> "", relatedPin |-> "", timingType |-> "", timingSense |-> "",
     cellRise |-> DataLut, riseTransition |-> DataLut, cellFall |-> DataLut,
     fallTransition |-> DataLut, riseConstrain |-> DataLut, fallConstrain |-> DataLut]

PowerArc ==
    [when |-> "", relatedPin |-> "", relatedPGpin |-> "",
     cellRise |-> DataLut, cellFall |-> DataLut]

LeakagePower == [value |-> 0, when |-> "", relatedPGpin |-> ""]

outputPinInfo ==
    [pinName |-> "", function |-> "", timingArcs |-> <<>>, powerArcs |-> <<>>]

inputPinInfo ==
    [pinName |-> "", capacitance |-> <<>>, rise_capacitance |-> <<>>,
     fall_capacitance |-> <<>>, rise_capacitance_range |-> <<<<>>, <<>>>>,
     fall_capacitance_range |-> <<<<>>, <<>>>>, timingArcs |-> <<>>, powerArcs |-> <<>>]

CellInfo == [cellName |-> "", leakages |-> <<>>, outputPins |-> <<>>, inputPins |-> <<>>]

PVT == [voltage |-> 0, temperature |-> 0, process |-> <<>>]

-----------------------------------------------------------------------------
(* The patcher (lib_modify_api.cpp) *)

\* timingArcEquals had it compared timing_sense as well
timingArcEquals_withSense(a, b) ==
    /\ (a.when = b.when) /\ (a.relatedPin = b.relatedPin) /\ (a.timingType = b.timingType)
    /\ (a.timingSense = b.timingSense)

timingArcEquals(a, b) ==
    (a.when = b.when) /\ (a.relatedPin = b.relatedPin) /\ (a.timingType = b.timingType)

powerArcEquals(a, b) ==
    (a.when = b.when) /\ (a.relatedPin = b.relatedPin) /\ (a.relatedPGpin = b.relatedPGpin)

leakageEquals(a, b) ==
    (a.when = b.when) /\ (a.relatedPGpin = b.relatedPGpin)

\* recreateComplexAttr had it returned an existing attribute with its values
recreateComplexAttr_keepValues(group, attrName, E) ==
    IF attrName \in DOMAIN group.attrs THEN [ok |-> TRUE, group |-> group]
    ELSE IF <<group.type, attrName>> \in E.noCreate THEN [ok |-> FALSE, group |-> group]
    ELSE [ok |-> TRUE, group |-> PutAttr(group, attrName, ComplexAttr(<<>>))]

\* returns the group after the call and whether the returned attribute is non-null
recreateComplexAttr(group, attrName, E) ==
    LET present == attrName \in DOMAIN group.attrs
        deleteFails == present /\ <<group.type, attrName>> \in E.noDelete
        deleted == IF present THEN DropAttr(group, attrName) ELSE group
        createFails == <<group.type, attrName>> \in E.noCreate
    IN  IF deleteFails THEN [ok |-> FALSE, group |-> group]
        ELSE IF createFails THEN [ok |-> FALSE, group |-> deleted]
        ELSE [ok |-> TRUE, group |-> PutAttr(deleted, attrName, ComplexAttr(<<>>))]

\* 3) values (lines 101-118), given what recreateComplexAttr returned
addLutValues(vals, lut) ==
    IF ~vals.ok THEN vals.group
    ELSE PutAttr(vals.group, "values",
                 ComplexAttr([i \in 1..Len(lut.values) |->
                                  StringValue(EncodeRow(lut.values[i]))]))

\* the string of one index written to the recreated attribute, when there is one
addLutIndex(idx, attrName, index) ==
    IF idx.ok
    THEN ComplexAttrAddValue(idx.group, attrName, StringValue(EncodeRow(index)))
    ELSE idx.group

\* 2) index_2 (lines 85-98)
addLutIndex2(subGroup, lut, E) ==
    IF lut.index2 = <<>> THEN subGroup
    ELSE addLutIndex(recreateComplexAttr(subGroup, "index_2", E), "index_2", lut.index2)

\* 1) index_1 (lines 69-82), given what recreateComplexAttr returned: a null
\* attribute skips the subgroup, otherwise steps 2) and 3) follow
addLutIndex1(idx1, lut, E) ==
    IF ~idx1.ok THEN idx1.group
    ELSE addLutValues(
            recreateComplexAttr(
                addLutIndex2(addLutIndex(idx1, "index_1", lut.index1), lut, E),
                "values", E),
            lut)

\* the body run for one subgroup whose type is lutGroupType (lines 67-120)
addArcLutToGroup(subGroup, lut, E) ==
    addLutIndex1(recreateComplexAttr(subGroup, "index_1", E), lut, E)

\* addArcLut had it added a subgroup of the type where the parent has none
addArcLut_creating(parentGroup, lutGroupType, lut, E) ==
    IF \E i \in 1..Len(parentGroup.groups) : parentGroup.groups[i].type = lutGroupType
    THEN [parentGroup EXCEPT !.groups =
            [i \in 1..Len(parentGroup.groups) |->
                IF parentGroup.groups[i].type = lutGroupType
                THEN addArcLutToGroup(parentGroup.groups[i], lut, E)
                ELSE parentGroup.groups[i]]]
    ELSE [parentGroup EXCEPT !.groups =
            Append(@, addArcLutToGroup(Group(lutGroupType, <<>>, NoAttrs, <<>>), lut, E))]

addArcLut(parentGroup, lutGroupType, lut, E) ==
    [parentGroup EXCEPT !.groups =
        [i \in 1..Len(parentGroup.groups) |->
            IF parentGroup.groups[i].type = lutGroupType
            THEN addArcLutToGroup(parentGroup.groups[i], lut, E)
            ELSE parentGroup.groups[i]]]

addCapacitanceRangeValues(group, name, range) ==
    LET g1 == IF range[1] # <<>>
              THEN ComplexAttrAddValue(group, name, Float64Value(range[1][1]))
              ELSE group
    IN  IF range[2] # <<>>
        THEN ComplexAttrAddValue(g1, name, Float64Value(range[2][1]))
        ELSE g1

\* addTimingArcValues had a refused cell_rise attribute ended the update of the arc
addTimingArcValues_stopOnFailure(group, arc, E) ==
    IF \E key \in E.noDelete \cup E.noCreate : key[1] = "cell_rise"
    THEN addArcLut(group, "cell_rise", arc.cellRise, E)
    ELSE addArcLut(
           addArcLut(
             addArcLut(
               addArcLut(
                 addArcLut(
                   addArcLut(group, "cell_rise", arc.cellRise, E),
                   "rise_transition", arc.riseTransition, E),
                 "cell_fall", arc.cellFall, E),
               "fall_transition", arc.fallTransition, E),
             "rise_constraint", arc.riseConstrain, E),
           "fall_constraint", arc.fallConstrain, E)

addTimingArcValues(group, arc, E) ==
    addArcLut(
      addArcLut(
        addArcLut(
          addArcLut(
            addArcLut(
              addArcLut(group, "cell_rise", arc.cellRise, E),
              "rise_transition", arc.riseTransition, E),
            "cell_fall", arc.cellFall, E),
          "fall_transition", arc.fallTransition, E),
        "rise_constraint", arc.riseConstrain, E),
      "fall_constraint", arc.fallConstrain, E)

addPowerArcValues(group, arc, E) ==
    addArcLut(addArcLut(group, "rise_power", arc.cellRise, E),
              "fall_power", arc.cellFall, E)

\* one "if (has_value) { find; if (!null) set }" block of updateInputCapacitance
SetFloatIfFound(group, name, opt) ==
    IF opt # <<>> /\ ~si2drObjectIsNull(si2drGroupFindAttrByName(group, name))
    THEN PutAttr(group, name, FloatAttr(opt[1]))
    ELSE group

\* the values added to a recreated range attribute; a null attribute adds nothing
addRangeTo(r, name, range) ==
    IF r.ok THEN addCapacitanceRangeValues(r.group, name, range) ELSE r.group

\* one range block of updateInputCapacitance
RecreateRange(group, name, range, E) ==
    IF range[1] # <<>> \/ range[2] # <<>>
    THEN addRangeTo(recreateComplexAttr(group, name, E), name, range)
    ELSE group

\* updateInputCapacitance without the has_value test on rise_capacitance
updateInputCapacitance_noHasValue(jsonPin, pinGroup, E) ==
    RecreateRange(
      RecreateRange(
        SetFloatIfFound(
          SetFloatIfFound(
            SetFloatIfFound(pinGroup, "capacitance", jsonPin.capacitance),
            "rise_capacitance",
            IF jsonPin.rise_capacitance = <<>> THEN <<0>> ELSE jsonPin.rise_capacitance),
          "fall_capacitance", jsonPin.fall_capacitance),
        "rise_capacitance_range", jsonPin.rise_capacitance_range, E),
      "fall_capacitance_range", jsonPin.fall_capacitance_range, E)

updateInputCapacitance(jsonPin, pinGroup, E) ==
    RecreateRange(
      RecreateRange(
        SetFloatIfFound(
          SetFloatIfFound(
            SetFloatIfFound(pinGroup, "capacitance", jsonPin.capacitance),
            "rise_capacitance", jsonPin.rise_capacitance),
          "fall_capacitance", jsonPin.fall_capacitance),
        "rise_capacitance_range", jsonPin.rise_capacitance_range, E),
      "fall_capacitance_range", jsonPin.fall_capacitance_range, E)

\* "if (val) field = val" on the string attribute `name`, absent or not a string: ""
StringOrEmpty(group, name) ==
    LET val == si2drSimpleAttrGetStringValue(si2drGroupFindAttrByName(group, name))
    IN  IF val # <<>> THEN val[1] ELSE ""

\* TimingArc existingArc of updateTimingArcs
ExistingTimingArc(timingGroup) ==
    [TimingArc EXCEPT !.relatedPin = StringOrEmpty(timingGroup, "related_pin"),
                      !.when = StringOrEmpty(timingGroup, "when"),
                      !.timingType = StringOrEmpty(timingGroup, "timing_type")]

\* updateTimingArcs had it taken the last patch arc of the group's key
updateTimingArcs_lastMatch(jsonArcs, pinGroup, E) ==
    [pinGroup EXCEPT !.groups =
        [i \in 1..Len(pinGroup.groups) |->
            LET timingGroup == pinGroup.groups[i]
                hits == {k \in 1..Len(jsonArcs) :
                            timingArcEquals(ExistingTimingArc(timingGroup), jsonArcs[k])}
            IN  IF timingGroup.type = "timing" /\ hits # {}
                THEN addTimingArcValues(timingGroup,
                        jsonArcs[CHOOSE k \in hits : \A m \in hits : m <= k], E)
                ELSE timingGroup]]

updateTimingArcs(jsonArcs, pinGroup, E) ==
    [pinGroup EXCEPT !.groups =
        [i \in 1..Len(pinGroup.groups) |->
            LET timingGroup == pinGroup.groups[i]
                it == FindIf(jsonArcs,
                             LAMBDA arc : timingArcEquals(ExistingTimingArc(timingGroup), arc))
            IN  IF timingGroup.type = "timing" /\ it # 0
                THEN addTimingArcValues(timingGroup, jsonArcs[it], E)
                ELSE timingGroup]]

\* PowerArc existingArc of updatePowerArcs
ExistingPowerArc(powerGroup) ==
    [PowerArc EXCEPT !.relatedPin = StringOrEmpty(powerGroup, "related_pin"),
                     !.when = StringOrEmpty(powerGroup, "when"),
                     !.relatedPGpin = StringOrEmpty(powerGroup, "related_pg_pin")]

updatePowerArcs(jsonArcs, pinGroup, E) ==
    [pinGroup EXCEPT !.groups =
        [i \in 1..Len(pinGroup.groups) |->
            LET powerGroup == pinGroup.groups[i]
                it == FindIf(jsonArcs,
                             LAMBDA arc : powerArcEquals(ExistingPowerArc(powerGroup), arc))
            IN  IF powerGroup.type = "internal_power" /\ it # 0
                THEN addPowerArcValues(powerGroup, jsonArcs[it], E)
                ELSE powerGroup]]

\* find the simple attribute, create it when absent, set it; a failed create
\* leaves a null id, on which the set does nothing
SetOrCreateSimple(group, name, value, E) ==
    IF name \in DOMAIN group.attrs \/ <<group.type, name>> \notin E.noCreate
    THEN PutAttr(group, name, value)
    ELSE group

\* updateLeakagePower had it set value only where the group has one already
updateLeakagePower_noCreate(leakageGroup, info, E) ==
    LET g1 == IF "value" \in DOMAIN leakageGroup.attrs
              THEN PutAttr(leakageGroup, "value", FloatAttr(info.value))
              ELSE leakageGroup
        g2 == IF info.when # ""
              THEN SetOrCreateSimple(g1, "when", StringAttr(info.when), E)
              ELSE g1
    IN  IF info.relatedPGpin # ""
        THEN SetOrCreateSimple(g2, "related_pg_pin", StringAttr(info.relatedPGpin), E)
        ELSE g2

updateLeakagePower(leakageGroup, info, E) ==
    LET g1 == SetOrCreateSimple(leakageGroup, "value", FloatAttr(info.value), E)
        g2 == IF info.when # ""
              THEN SetOrCreateSimple(g1, "when", StringAttr(info.when), E)
              ELSE g1
    IN  IF info.relatedPGpin # ""
        THEN SetOrCreateSimple(g2, "related_pg_pin", StringAttr(info.relatedPGpin), E)
        ELSE g2

\* LeakagePower existing of updateLeakages
ExistingLeakage(oneGroup) ==
    LET valAttr == si2drGroupFindAttrByName(oneGroup, "value")
    IN  [value |-> IF si2drObjectIsNull(valAttr) THEN 0
                   ELSE si2drSimpleAttrGetFloat64Value(valAttr),
         when |-> StringOrEmpty(oneGroup, "when"),
         relatedPGpin |-> StringOrEmpty(oneGroup, "related_pg_pin")]

\* updateLeakages had a matched entry been taken out of the list
updateLeakages_consuming(jsonLeakages, cellGroup, E) ==
    [cellGroup EXCEPT !.groups =
        [i \in 1..Len(cellGroup.groups) |->
            LET oneGroup == cellGroup.groups[i]
                hits == {k \in 1..Len(jsonLeakages) :
                            leakageEquals(jsonLeakages[k], ExistingLeakage(oneGroup))}
                earlier == {j \in 1..(i - 1) :
                               /\ cellGroup.groups[j].type = "leakage_power"
                               /\ leakageEquals(ExistingLeakage(cellGroup.groups[j]),
                                                ExistingLeakage(oneGroup))}
                left == {k \in hits : Cardinality({m \in hits : m < k}) >= Cardinality(earlier)}
            IN  IF oneGroup.type = "leakage_power" /\ left # {}
                THEN updateLeakagePower(oneGroup,
                        jsonLeakages[CHOOSE k \in left : \A m \in left : k <= m], E)
                ELSE oneGroup]]

updateLeakages(jsonLeakages, cellGroup, E) ==
    [cellGroup EXCEPT !.groups =
        [i \in 1..Len(cellGroup.groups) |->
            LET oneGroup == cellGroup.groups[i]
                it == FindIf(jsonLeakages,
                             LAMBDA lp : leakageEquals(lp, ExistingLeakage(oneGroup)))
            IN  IF oneGroup.type = "leakage_power" /\ it # 0
                THEN updateLeakagePower(oneGroup, jsonLeakages[it], E)
                ELSE oneGroup]]

\* the pin loop body had it taken every direction but output for input
updatePinGroup_anyDirection(jsonCell, pinGroup, E) ==
    LET dirVal == si2drSimpleAttrGetStringValue(si2drGroupFindAttrByName(pinGroup, "direction"))
        pName == FirstName(pinGroup)
        inIt == FindIf(jsonCell.inputPins, LAMBDA pin : pin.pinName = pName[1])
        outIt == FindIf(jsonCell.outputPins, LAMBDA pin : pin.pinName = pName[1])
    IN  IF pinGroup.type # "pin" \/ pName = <<>> THEN pinGroup
        ELSE IF dirVal # <<"output">> THEN
            IF inIt # 0
            THEN LET pin == jsonCell.inputPins[inIt]
                 IN  updatePowerArcs(pin.powerArcs,
                        updateTimingArcs(pin.timingArcs,
                            updateInputCapacitance(pin, pinGroup, E), E), E)
            ELSE pinGroup
        ELSE IF outIt # 0
            THEN LET pin == jsonCell.outputPins[outIt]
                 IN  updatePowerArcs(pin.powerArcs,
                        updateTimingArcs(pin.timingArcs, pinGroup, E), E)
            ELSE pinGroup

\* the body of the pin loop of updateLibertyFile (lines 431-472)
updatePinGroup(jsonCell, pinGroup, E) ==
    LET dirVal == si2drSimpleAttrGetStringValue(si2drGroupFindAttrByName(pinGroup, "direction"))
        pName == FirstName(pinGroup)
        inIt == FindIf(jsonCell.inputPins, LAMBDA pin : pin.pinName = pName[1])
        outIt == FindIf(jsonCell.outputPins, LAMBDA pin : pin.pinName = pName[1])
    IN  IF pinGroup.type # "pin" \/ pName = <<>> THEN pinGroup
        ELSE IF dirVal = <<"input">> THEN
            IF inIt # 0
            THEN LET pin == jsonCell.inputPins[inIt]
                 IN  updatePowerArcs(pin.powerArcs,
                        updateTimingArcs(pin.timingArcs,
                            updateInputCapacitance(pin, pinGroup, E), E), E)
            ELSE pinGroup
        ELSE IF dirVal = <<"output">> THEN
            IF outIt # 0
            THEN LET pin == jsonCell.outputPins[outIt]
                 IN  updatePowerArcs(pin.powerArcs,
                        updateTimingArcs(pin.timingArcs, pinGroup, E), E)
            ELSE pinGroup
        ELSE pinGroup

\* the pin loop of updateLibertyFile (lines 426-474) for the matched cell
updatePinGroups(jsonCell, cellGroup, E) ==
    [cellGroup EXCEPT !.groups =
        [i \in 1..Len(cellGroup.groups) |->
            updatePinGroup(jsonCell, cellGroup.groups[i], E)]]

\* the cell loop body had it patched an unmatched cell from the first patch cell
updateCellGroup_noSkip(cellGroup, jsonCells, E) ==
    LET cName == FirstName(cellGroup)
        cellIt == FindIf(jsonCells, LAMBDA c : c.cellName = cName[1])
        used == IF cellIt = 0 THEN 1 ELSE cellIt
    IN  IF cellGroup.type # "cell" \/ cName = <<>> \/ jsonCells = <<>> THEN cellGroup
        ELSE updatePinGroups(jsonCells[used],
                             updateLeakages(jsonCells[used].leakages, cellGroup, E), E)

\* the body of the cell loop of updateLibertyFile (lines 405-475)
updateCellGroup(cellGroup, jsonCells, E) ==
    LET cName == FirstName(cellGroup)
        cellIt == FindIf(jsonCells, LAMBDA c : c.cellName = cName[1])
    IN  IF cellGroup.type # "cell" \/ cName = <<>> \/ cellIt = 0 THEN cellGroup
        ELSE updatePinGroups(jsonCells[cellIt],
                             updateLeakages(jsonCells[cellIt].leakages, cellGroup, E), E)

updateLibertyFile(libraryGroup, jsonCells, E) ==
    [libraryGroup EXCEPT !.groups =
        [i \in 1..Len(libraryGroup.groups) |->
            updateCellGroup(libraryGroup.groups[i], jsonCells, E)]]

-----------------------------------------------------------------------------
(* The patch document: a JSON object is a function from its keys, an array a   *)
(* sequence, a number a double.  The documents of the model are well typed.    *)

\* a default-constructed json (null): the function with the empty domain
JsonNull == [n \in {} |-> 0]

contains(j, key) == key \in DOMAIN j

\* json::value(key, default)
JsonValue(j, key, default) == IF key \in DOMAIN j THEN j[key] ELSE default

\* the "if (arcJson.contains(slot)) { index1; index2; values }" block
LoadLut(arcJson, slot) ==
    IF contains(arcJson, slot)
    THEN [index1 |-> JsonValue(arcJson[slot], "index1", <<>>),
          index2 |-> JsonValue(arcJson[slot], "index2", <<>>),
          values |-> JsonValue(arcJson[slot], "values", <<>>)]
    ELSE DataLut

LoadTimingArc(arcJson) ==
    [when |-> JsonValue(arcJson, "when", ""),
     relatedPin |-> JsonValue(arcJson, "related_pin", ""),
     timingType |-> JsonValue(arcJson, "timing_type", ""),
     timingSense |-> JsonValue(arcJson, "timing_sense", ""),
     cellRise |-> LoadLut(arcJson, "cell_rise"),
     riseTransition |-> LoadLut(arcJson, "rise_transition"),
     cellFall |-> LoadLut(arcJson, "cell_fall"),
     fallTransition |-> LoadLut(arcJson, "fall_transition"),
     riseConstrain |-> LoadLut(arcJson, "rise_constraint"),
     fallConstrain |-> LoadLut(arcJson, "fall_constraint")]

LoadPowerArc(arcJson) ==
    [when |-> JsonValue(arcJson, "when", ""),
     relatedPin |-> JsonValue(arcJson, "related_pin", ""),
     relatedPGpin |-> JsonValue(arcJson, "related_pg_pin", ""),
     cellRise |-> LoadLut(arcJson, "cell_rise"),
     cellFall |-> LoadLut(arcJson, "cell_fall")]

\* "if (contains(key)) for (auto &x : j[key]) push_back(Load(x))"
LoadList(j, key, Load(_)) ==
    IF contains(j, key) THEN [i \in 1..Len(j[key]) |-> Load(j[key][i])] ELSE <<>>

LoadOptional(j, key) == IF contains(j, key) THEN <<j[key]>> ELSE <<>>

\* LoadRange had it read an array of size 1 as a range with a first side only
LoadRange_oneSided(j, key) ==
    IF contains(j, key) /\ Len(j[key]) = 2
    THEN <<<<j[key][1]>>, <<j[key][2]>>>>
    ELSE IF contains(j, key) /\ Len(j[key]) = 1
    THEN <<<<j[key][1]>>, <<>>>>
    ELSE <<<<>>, <<>>>>

\* a range is read only from an array of size 2, and then with both sides
LoadRange(j, key) ==
    IF contains(j, key) /\ Len(j[key]) = 2
    THEN <<<<j[key][1]>>, <<j[key][2]>>>>
    ELSE <<<<>>, <<>>>>

LoadOutputPin(pinJson) ==
    [pinName |-> JsonValue(pinJson, "pin_name", ""),
     function |-> JsonValue(pinJson, "function", ""),
     timingArcs |-> LoadList(pinJson, "timing_arcs", LoadTimingArc),
     powerArcs |-> LoadList(pinJson, "power_arcs", LoadPowerArc)]

LoadInputPin(pinJson) ==
    [pinName |-> JsonValue(pinJson, "pin_name", ""),
     capacitance |-> LoadOptional(pinJson, "capacitance"),
     rise_capacitance |-> LoadOptional(pinJson, "rise_capacitance"),
     fall_capacitance |-> LoadOptional(pinJson, "fall_capacitance"),
     rise_capacitance_range |-> LoadRange(pinJson, "rise_capacitance_range"),
     fall_capacitance_range |-> LoadRange(pinJson, "fall_capacitance_range"),
     timingArcs |-> LoadList(pinJson, "timing_arcs", LoadTimingArc),
     powerArcs |-> LoadList(pinJson, "power_arcs", LoadPowerArc)]

LoadLeakage(lkJson) ==
    [value |-> JsonValue(lkJson, "value", 0),
     when |-> JsonValue(lkJson, "when", ""),
     relatedPGpin |-> JsonValue(lkJson, "related_pg_pin", "")]

LoadCell(cellJson) ==
    [cellName |-> JsonValue(cellJson, "cell_name", ""),
     leakages |-> LoadList(cellJson, "leakage_power", LoadLeakage),
     outputPins |-> LoadList(cellJson, "output_pins", LoadOutputPin),
     inputPins |-> LoadList(cellJson, "input_pins", LoadInputPin)]

\* an element of the array j[key] is null
NullIn(j, key) == contains(j, key) /\ \E i \in 1..Len(j[key]) : j[key][i] = JsonNull

\* json::value(key, default) is called on a null of the pin list: a pin or one
\* of its arcs
ValueOnNullPin(cellJson, key) ==
    \/ NullIn(cellJson, key)
    \/ /\ contains(cellJson, key)
       /\ \E i \in 1..Len(cellJson[key]) :
             NullIn(cellJson[key][i], "timing_arcs") \/ NullIn(cellJson[key][i], "power_arcs")

\* json::value(key, default) is called on a null of the document, on which it
\* throws json::type_error
ValueOnNull(doc) ==
    \/ NullIn(doc, "cells")
    \/ /\ contains(doc, "cells")
       /\ \E i \in 1..Len(doc.cells) :
             \/ ValueOnNullPin(doc.cells[i], "output_pins")
             \/ ValueOnNullPin(doc.cells[i], "input_pins")
             \/ NullIn(doc.cells[i], "leakage_power")

\* file.state: "missing" (cannot be opened), "malformed" (json::parse_error) or
\* "ok"; thrown stands for the json::type_error leaving the function
loadJsonToCells(file) ==
    IF file.state # "ok" THEN [ok |-> FALSE, thrown |-> FALSE, cells |-> <<>>, pvt |-> PVT]
    ELSE IF ValueOnNull(file.doc)
    THEN [ok |-> FALSE, thrown |-> TRUE, cells |-> <<>>, pvt |-> PVT]
    ELSE [ok |-> TRUE, thrown |-> FALSE,
          cells |-> LoadList(file.doc, "cells", LoadCell),
          pvt |-> [voltage |-> JsonValue(file.doc, "voltage", 0),
                   temperature |-> JsonValue(file.doc, "temperature", 0),
                   process |-> JsonValue(file.doc, "process", <<>>)]]

-----------------------------------------------------------------------------
(* The extractor (lib_parser_api.cpp).  A result with ok = FALSE stands for   *)
(* the std::invalid_argument of std::stod leaving the function.               *)

\* the values parsed so far joined with those parsed after them; the exception
\* of either part is the exception of the whole
AppendParsed(here, rest) ==
    IF here.ok /\ rest.ok THEN [ok |-> TRUE, v |-> here.v \o rest.v]
    ELSE [ok |-> FALSE, v |-> <<>>]

\* result.push_back(val) for the value std::stod returned
PushBackValue(d) == [ok |-> d.ok, v |-> IF d.ok THEN <<d.v>> ELSE <<>>]

\* "if (!token.empty()) push_back(std::stod(token))" over the tokens of one string
RECURSIVE ParseTokens(_)
ParseTokens(tokens) ==
    IF tokens = <<>> THEN [ok |-> TRUE, v |-> <<>>]
    ELSE IF Head(tokens) = <<>> THEN ParseTokens(Tail(tokens))
    ELSE AppendParsed(PushBackValue(stod(Head(tokens))), ParseTokens(Tail(tokens)))

\* the value loop of parseComplexAttrToFloats
RECURSIVE ParseFlat(_)
ParseFlat(values) ==
    IF values = <<>> THEN [ok |-> TRUE, v |-> <<>>]
    ELSE AppendParsed(IF Head(values).t = "string"
                      THEN ParseTokens(getline(Head(values).s, ","))
                      ELSE [ok |-> TRUE, v |-> <<Head(values).f>>],
                      ParseFlat(Tail(values)))

parseComplexAttrToFloats(attr) ==
    IF attr.k = "complex" THEN ParseFlat(attr.c) ELSE [ok |-> TRUE, v |-> <<>>]

\* "if (!row.empty()) result.push_back(row)"
PushBackRow(row) == [ok |-> row.ok, v |-> IF row.ok /\ row.v # <<>> THEN <<row.v>> ELSE <<>>]

\* the line loop of parseComplexAttrValuesToFloats over the lines of one string
RECURSIVE ParseLines(_)
ParseLines(lines) ==
    IF lines = <<>> THEN [ok |-> TRUE, v |-> <<>>]
    ELSE IF Head(lines) = <<>> THEN ParseLines(Tail(lines))
    ELSE AppendParsed(PushBackRow(ParseTokens(getline(Head(lines), ","))),
                      ParseLines(Tail(lines)))

\* the value loop had it taken each string for one line
ParseRows_oneLine(values) ==
    IF values = <<>> THEN [ok |-> TRUE, v |-> <<>>]
    ELSE LET rs == [i \in 1..Len(values) |->
                       IF values[i].t = "string"
                       THEN PushBackRow(ParseTokens(getline(values[i].s, ",")))
                       ELSE [ok |-> TRUE, v |-> <<>>]]
             Cat[i \in 0..Len(rs)] == IF i = 0 THEN <<>> ELSE Cat[i - 1] \o rs[i].v
         IN  IF \A i \in 1..Len(rs) : rs[i].ok THEN [ok |-> TRUE, v |-> Cat[Len(rs)]]
             ELSE [ok |-> FALSE, v |-> <<>>]

\* the value loop of parseComplexAttrValuesToFloats
RECURSIVE ParseRows(_)
ParseRows(values) ==
    IF values = <<>> THEN [ok |-> TRUE, v |-> <<>>]
    ELSE AppendParsed(IF Head(values).t = "string"
                      THEN ParseLines(getline(Head(values).s, "\n"))
                      ELSE [ok |-> TRUE, v |-> <<>>],
                      ParseRows(Tail(values)))

parseComplexAttrValuesToFloats(attr) ==
    IF attr.k = "complex" THEN ParseRows(attr.c) ELSE [ok |-> TRUE, v |-> <<>>]

\* the DataLut of the three parsed members
MakeLut(i1, i2, vs) ==
    [ok |-> i1.ok /\ i2.ok /\ vs.ok,
     lut |-> [index1 |-> i1.v, index2 |-> i2.v, values |-> vs.v]]

fillDataLut(group, dataLut) ==
    MakeLut(IF si2drObjectIsNull(si2drGroupFindAttrByName(group, "index_1"))
            THEN [ok |-> TRUE, v |-> dataLut.index1]
            ELSE parseComplexAttrToFloats(si2drGroupFindAttrByName(group, "index_1")),
            IF si2drObjectIsNull(si2drGroupFindAttrByName(group, "index_2"))
            THEN [ok |-> TRUE, v |-> dataLut.index2]
            ELSE parseComplexAttrToFloats(si2drGroupFindAttrByName(group, "index_2")),
            IF si2drObjectIsNull(si2drGroupFindAttrByName(group, "values"))
            THEN [ok |-> TRUE, v |-> dataLut.values]
            ELSE parseComplexAttrValuesToFloats(si2drGroupFindAttrByName(group, "values")))

\* group type -> field of TimingArc / PowerArc filled from it
TimingSlots ==
    [cell_rise |-> "cellRise", rise_transition |-> "riseTransition",
     cell_fall |-> "cellFall", fall_transition |-> "fallTransition",
     rise_constraint |-> "riseConstrain", fall_constraint |-> "fallConstrain"]

PowerSlots == [rise_power |-> "cellRise", fall_power |-> "cellFall"]

\* the subgroup loop of findTimingGroups / findPowerGroups: FillSlots takes the
\* next subgroup, FillSlot stores what fillDataLut returned for it and goes on
RECURSIVE FillSlots(_, _, _), FillSlot(_, _, _, _)
FillSlot(r, subGroups, slots, arc) ==
    IF r.ok
    THEN FillSlots(Tail(subGroups), slots,
                   [arc EXCEPT ![slots[Head(subGroups).type]] = r.lut])
    ELSE [ok |-> FALSE, arc |-> arc]

FillSlots(subGroups, slots, arc) ==
    IF subGroups = <<>> THEN [ok |-> TRUE, arc |-> arc]
    ELSE IF Head(subGroups).type \in DOMAIN slots
    THEN FillSlot(fillDataLut(Head(subGroups), arc[slots[Head(subGroups).type]]),
                  subGroups, slots, arc)
    ELSE FillSlots(Tail(subGroups), slots, arc)

findTimingGroups(timingGroup, timingArc) ==
    FillSlots(timingGroup.groups, TimingSlots, timingArc)

findPowerGroups(powerGroup, powerArc) ==
    FillSlots(powerGroup.groups, PowerSlots, powerArc)

\* the subgroups of `group` of type `type`, in tree order
GroupsOfType(group, type) == SelectSeq(group.groups, LAMBDA g : g.type = type)

AllOk(rs) == \A i \in 1..Len(rs) : rs[i].ok

\* the arcs had they been collected last group first
CollectArcs_reversed(rs) ==
    [ok |-> AllOk(rs), arcs |-> [i \in 1..Len(rs) |-> rs[Len(rs) + 1 - i].arc]]

\* arcs.push_back(arc) for every group of the loop
CollectArcs(rs) == [ok |-> AllOk(rs), arcs |-> [i \in 1..Len(rs) |-> rs[i].arc]]

TimingArcsOf(timingGroups) ==
    [i \in 1..Len(timingGroups) |->
        findTimingGroups(timingGroups[i],
            [TimingArc EXCEPT
                !.relatedPin = StringOrEmpty(timingGroups[i], "related_pin"),
                !.when = StringOrEmpty(timingGroups[i], "when"),
                !.timingType = StringOrEmpty(timingGroups[i], "timing_type"),
                !.timingSense = StringOrEmpty(timingGroups[i], "timing_sense")])]

processTimingArcs(pinGroup) ==
    CollectArcs(TimingArcsOf(GroupsOfType(pinGroup, "timing")))

PowerArcsOf(powerGroups) ==
    [i \in 1..Len(powerGroups) |->
        findPowerGroups(powerGroups[i],
            [PowerArc EXCEPT
                !.when = StringOrEmpty(powerGroups[i], "when"),
                !.relatedPin = StringOrEmpty(powerGroups[i], "related_pin"),
                !.relatedPGpin = StringOrEmpty(powerGroups[i], "related_pg_pin")])]

processPowerArcs(pinGroup) ==
    CollectArcs(PowerArcsOf(GroupsOfType(pinGroup, "internal_power")))

parseLeakage(leakageGroup, lp) ==
    LET valAttr == si2drGroupFindAttrByName(leakageGroup, "value")
    IN  [value |-> IF si2drObjectIsNull(valAttr) THEN lp.value
                   ELSE si2drSimpleAttrGetFloat64Value(valAttr),
         when |-> StringOrEmpty(leakageGroup, "when"),
         relatedPGpin |-> StringOrEmpty(leakageGroup, "related_pg_pin")]

processLeakage(cellGroup, leaks) ==
    LET leakageGroups == GroupsOfType(cellGroup, "leakage_power")
    IN  leaks \o [i \in 1..Len(leakageGroups) |-> parseLeakage(leakageGroups[i], LeakagePower)]

\* "if (!null) field = GetFloat64Value(attr)" into a std::optional<double>
OptionalFloat(group, name) ==
    LET attr == si2drGroupFindAttrByName(group, name)
    IN  IF si2drObjectIsNull(attr) THEN <<>> ELSE <<si2drSimpleAttrGetFloat64Value(attr)>>

\* "if (vals.size() == 2) range = {vals[0], vals[1]}"
RangeOf(vals) ==
    [ok |-> vals.ok,
     range |-> IF vals.ok /\ Len(vals.v) = 2 THEN <<<<vals.v[1]>>, <<vals.v[2]>>>>
               ELSE <<<<>>, <<>>>>]

\* one range block of processCellPins
ReadRange(group, name) ==
    IF si2drObjectIsNull(si2drGroupFindAttrByName(group, name))
    THEN [ok |-> TRUE, range |-> <<<<>>, <<>>>>]
    ELSE RangeOf(parseComplexAttrToFloats(si2drGroupFindAttrByName(group, name)))

\* the direction of a pin group as processCellPins and updateLibertyFile read it
DirectionOf(pinGroup) ==
    si2drSimpleAttrGetStringValue(si2drGroupFindAttrByName(pinGroup, "direction"))

FirstNameOrEmpty(pinGroup) ==
    IF FirstName(pinGroup) = <<>> THEN "" ELSE FirstName(pinGroup)[1]

\* the outputPinInfo pushed by the output branch of processCellPins
MakeOutputPin(pinGroup, t, p) ==
    [ok |-> t.ok /\ p.ok,
     pin |-> [pinName |-> FirstNameOrEmpty(pinGroup),
              function |-> StringOrEmpty(pinGroup, "function"),
              timingArcs |-> t.arcs, powerArcs |-> p.arcs]]

\* the output branch of processCellPins
ReadOutputPin(pinGroup) ==
    MakeOutputPin(pinGroup, processTimingArcs(pinGroup), processPowerArcs(pinGroup))

\* the inputPinInfo pushed by the input branch of processCellPins
MakeInputPin(pinGroup, rr, fr, t, p) ==
    [ok |-> rr.ok /\ fr.ok /\ t.ok /\ p.ok,
     pin |-> [pinName |-> FirstNameOrEmpty(pinGroup),
              capacitance |-> OptionalFloat(pinGroup, "capacitance"),
              rise_capacitance |-> OptionalFloat(pinGroup, "rise_capacitance"),
              fall_capacitance |-> OptionalFloat(pinGroup, "fall_capacitance"),
              rise_capacitance_range |-> rr.range,
              fall_capacitance_range |-> fr.range,
              timingArcs |-> t.arcs, powerArcs |-> p.arcs]]

\* the input branch of processCellPins
ReadInputPin(pinGroup) ==
    MakeInputPin(pinGroup,
                 ReadRange(pinGroup, "rise_capacitance_range"),
                 ReadRange(pinGroup, "fall_capacitance_range"),
                 processTimingArcs(pinGroup), processPowerArcs(pinGroup))

\* the pins of the groups whose direction is `direction`, in tree order
PinsOf(cellGroup, direction, ReadPin(_)) ==
    LET pinGroups == SelectSeq(GroupsOfType(cellGroup, "pin"),
                               LAMBDA g : DirectionOf(g) = <<direction>>)
    IN  [i \in 1..Len(pinGroups) |-> ReadPin(pinGroups[i])]

\* outputPins.push_back / inputPins.push_back for every pin of the loop
CollectPins(cellInfo, outs, ins) ==
    [ok |-> AllOk(outs) /\ AllOk(ins),
     cell |-> [cellInfo EXCEPT
                !.outputPins = @ \o [i \in 1..Len(outs) |-> outs[i].pin],
                !.inputPins = @ \o [i \in 1..Len(ins) |-> ins[i].pin]]]

processCellPins(cellGroup, cellInfo) ==
    CollectPins(cellInfo,
                PinsOf(cellGroup, "output", ReadOutputPin),
                PinsOf(cellGroup, "input", ReadInputPin))

getPVT(group, p) ==
    LET voltageAttr == si2drGroupFindAttrByName(group, "nom_voltage")
        temperatureAttr == si2drGroupFindAttrByName(group, "nom_temperature")
    IN  [p EXCEPT
            !.voltage = IF si2drObjectIsNull(voltageAttr) THEN @
                        ELSE si2drSimpleAttrGetFloat64Value(voltageAttr),
            !.temperature = IF si2drObjectIsNull(temperatureAttr) THEN @
                            ELSE si2drSimpleAttrGetInt32Value(temperatureAttr)]

\* processLeakage on the cell processCellPins filled
WithLeakages(cellGroup, withPins) ==
    [ok |-> withPins.ok,
     cell |-> [withPins.cell EXCEPT !.leakages = processLeakage(cellGroup, @)]]

\* the body of the cell loop of processCells (lines 663-680)
ReadCell(cellGroup) ==
    WithLeakages(cellGroup,
                 processCellPins(cellGroup,
                                 [CellInfo EXCEPT !.cellName = FirstNameOrEmpty(cellGroup)]))

CellsOf(cellGroups) == [i \in 1..Len(cellGroups) |-> ReadCell(cellGroups[i])]

\* cells.push_back(cellInfo) for every cell of the loop, and getPVT
CollectCells(libraryGroup, rs, cs, p) ==
    [ok |-> AllOk(rs),
     cells |-> cs \o [i \in 1..Len(rs) |-> rs[i].cell],
     pvt |-> getPVT(libraryGroup, p)]

processCells(libraryGroup, cs, p) ==
    CollectCells(libraryGroup, CellsOf(GroupsOfType(libraryGroup, "cell")), cs, p)

\* the top-level loop of parseLibertyAndGetCells (lines 719-724): ProcessTopGroups
\* takes the next group, ProcessNext goes on from what processCells returned
RECURSIVE ProcessTopGroups(_, _, _), ProcessNext(_, _, _, _)
ProcessNext(r, topGroups, cs, p) ==
    IF r.ok THEN ProcessTopGroups(Tail(topGroups), r.cells, r.pvt)
    ELSE [ok |-> FALSE, cells |-> cs, pvt |-> p]

ProcessTopGroups(topGroups, cs, p) ==
    IF topGroups = <<>> THEN [ok |-> TRUE, cells |-> cs, pvt |-> p]
    ELSE ProcessNext(processCells(Head(topGroups), cs, p), topGroups, cs, p)

-----------------------------------------------------------------------------
(* The document writer (lib_parser_api.cpp) *)

\* "if (cond) j[key] = value"
OptKey(cond, key, value) == IF cond THEN (key :> value) ELSE JsonNull

LutNonEmpty(lut) == lut.index1 # <<>> \/ lut.index2 # <<>> \/ lut.values # <<>>

dataLutToJson(lut) ==
    OptKey(lut.index1 # <<>>, "index1", lut.index1)
    @@ OptKey(lut.index2 # <<>>, "index2", lut.index2)
    @@ OptKey(lut.values # <<>>, "values", lut.values)

timingArcToJson(arc) ==
    OptKey(arc.when # "", "when", arc.when)
    @@ OptKey(arc.relatedPin # "", "related_pin", arc.relatedPin)
    @@ OptKey(arc.timingType # "", "timing_type", arc.timingType)
    @@ OptKey(arc.timingSense # "", "timing_sense", arc.timingSense)
    @@ OptKey(LutNonEmpty(arc.cellRise), "cell_rise", dataLutToJson(arc.cellRise))
    @@ OptKey(LutNonEmpty(arc.riseTransition), "rise_transition",
              dataLutToJson(arc.riseTransition))
    @@ OptKey(LutNonEmpty(arc.cellFall), "cell_fall", dataLutToJson(arc.cellFall))
    @@ OptKey(LutNonEmpty(arc.fallTransition), "fall_transition",
              dataLutToJson(arc.fallTransition))
    @@ OptKey(LutNonEmpty(arc.riseConstrain), "rise_constraint",
              dataLutToJson(arc.riseConstrain))
    @@ OptKey(LutNonEmpty(arc.fallConstrain), "fall_constraint",
              dataLutToJson(arc.fallConstrain))

powerArcToJson(arc) ==
    OptKey(arc.when # "", "when", arc.when)
    @@ OptKey(arc.relatedPin # "", "related_pin", arc.relatedPin)
    @@ OptKey(arc.relatedPGpin # "", "related_pg_pin", arc.relatedPGpin)
    @@ OptKey(LutNonEmpty(arc.cellRise), "cell_rise", dataLutToJson(arc.cellRise))
    @@ OptKey(LutNonEmpty(arc.cellFall), "cell_fall", dataLutToJson(arc.cellFall))

leakageToJson(lp) ==
    ("value" :> lp.value)
    @@ OptKey(lp.when # "", "when", lp.when)
    @@ OptKey(lp.relatedPGpin # "", "related_pg_pin", lp.relatedPGpin)

\* std::optional::value_or(0.0)
ValueOr0(opt) == IF opt = <<>> THEN 0 ELSE opt[1]

RangeToJson(range) == <<ValueOr0(range[1]), ValueOr0(range[2])>>

RangeHasSide(range) == range[1] # <<>> \/ range[2] # <<>>

ArcsToJson(arcs, ToJson(_)) == [i \in 1..Len(arcs) |-> ToJson(arcs[i])]

inputPinInfoToJson(pin) ==
    ("pin_name" :> pin.pinName)
    @@ OptKey(pin.capacitance # <<>>, "capacitance", ValueOr0(pin.capacitance))
    @@ OptKey(pin.rise_capacitance # <<>>, "rise_capacitance",
              ValueOr0(pin.rise_capacitance))
    @@ OptKey(pin.fall_capacitance # <<>>, "fall_capacitance",
              ValueOr0(pin.fall_capacitance))
    @@ OptKey(RangeHasSide(pin.rise_capacitance_range), "rise_capacitance_range",
              RangeToJson(pin.rise_capacitance_range))
    @@ OptKey(RangeHasSide(pin.fall_capacitance_range), "fall_capacitance_range",
              RangeToJson(pin.fall_capacitance_range))
    @@ OptKey(pin.timingArcs # <<>>, "timing_arcs", ArcsToJson(pin.timingArcs, timingArcToJson))
    @@ OptKey(pin.powerArcs # <<>>, "power_arcs", ArcsToJson(pin.powerArcs, powerArcToJson))

outputPinInfoToJson(pin) ==
    ("pin_name" :> pin.pinName)
    @@ OptKey(pin.function # "", "function", pin.function)
    @@ OptKey(pin.timingArcs # <<>>, "timing_arcs", ArcsToJson(pin.timingArcs, timingArcToJson))
    @@ OptKey(pin.powerArcs # <<>>, "power_arcs", ArcsToJson(pin.powerArcs, powerArcToJson))

cellInfoToJson(cell) ==
    ("cell_name" :> cell.cellName)
    @@ OptKey(cell.outputPins # <<>>, "output_pins",
              ArcsToJson(cell.outputPins, outputPinInfoToJson))
    @@ OptKey(cell.inputPins # <<>>, "input_pins",
              ArcsToJson(cell.inputPins, inputPinInfoToJson))
    @@ OptKey(cell.leakages # <<>>, "leakage_power", ArcsToJson(cell.leakages, leakageToJson))

\* the document dumpCellsToJson writes
dumpCellsToJson(cs, p) ==
    [voltage |-> p.voltage, temperature |-> p.temperature, process |-> p.process,
     cells |-> ArcsToJson(cs, cellInfoToJson)]

-----------------------------------------------------------------------------
(* The iterators of the tree library (si2drGroupGetGroups, si2drGroupGetNames, *)
(* si2drComplexAttrGetValues, si2drPIGetGroups) that a traversal obtains and   *)
(* those it releases with si2drIterQuit.  A count is a record [ok, o, r]: o    *)
(* iterators obtained, r released, ok = FALSE when std::stod threw on the way. *)

NoIters == [ok |-> TRUE, o |-> 0, r |-> 0]

\* b run after a
Then(a, b) == [ok |-> b.ok, o |-> a.o + b.o, r |-> a.r + b.r]

\* the steps run one after another; an exception ends the run
RECURSIVE RunSteps(_)
RunSteps(steps) ==
    IF steps = <<>> THEN NoIters
    ELSE IF ~Head(steps).ok THEN Head(steps)
    ELSE Then(Head(steps), RunSteps(Tail(steps)))

\* an iterator obtained before `inner` and released by the si2drIterQuit that
\* follows it, which an exception leaving `inner` skips
Scoped(inner) ==
    [ok |-> inner.ok, o |-> inner.o + 1, r |-> inner.r + (IF inner.ok THEN 1 ELSE 0)]

\* si2drGroupGetNames, si2drIterNextName, si2drIterQuit
NamesIter == Scoped(NoIters)

\* valuesId of parseComplexAttrToFloats / parseComplexAttrValuesToFloats
ItersOfParse(parsed) == Scoped([NoIters EXCEPT !.ok = parsed.ok])

\* "if (!si2drObjectIsNull(attr)) parse(attr)" on the attribute `name`
ItersOfAttr(group, name, rows) ==
    IF si2drObjectIsNull(si2drGroupFindAttrByName(group, name)) THEN NoIters
    ELSE IF rows
    THEN ItersOfParse(parseComplexAttrValuesToFloats(si2drGroupFindAttrByName(group, name)))
    ELSE ItersOfParse(parseComplexAttrToFloats(si2drGroupFindAttrByName(group, name)))

ItersOfFillDataLut(group) ==
    RunSteps(<<ItersOfAttr(group, "index_1", FALSE),
               ItersOfAttr(group, "index_2", FALSE),
               ItersOfAttr(group, "values", TRUE)>>)

\* findTimingGroups / findPowerGroups: subGroups
ItersOfFindGroups(arcGroup, slots) ==
    Scoped(RunSteps([k \in 1..Len(arcGroup.groups) |->
                        IF arcGroup.groups[k].type \in DOMAIN slots
                        THEN ItersOfFillDataLut(arcGroup.groups[k])
                        ELSE NoIters]))

\* processTimingArcs / processPowerArcs: pinGroups
ItersOfProcessArcs(pinGroup, type, slots) ==
    Scoped(RunSteps([k \in 1..Len(pinGroup.groups) |->
                        IF pinGroup.groups[k].type = type
                        THEN ItersOfFindGroups(pinGroup.groups[k], slots)
                        ELSE NoIters]))

\* the body of the pin loop of processCellPins
ItersOfReadPin(pinGroup) ==
    RunSteps(<<NamesIter>>
             \o (IF DirectionOf(pinGroup) = <<"input">>
                 THEN <<ItersOfAttr(pinGroup, "rise_capacitance_range", FALSE),
                        ItersOfAttr(pinGroup, "fall_capacitance_range", FALSE)>>
                 ELSE <<>>)
             \o (IF DirectionOf(pinGroup) \in {<<"input">>, <<"output">>}
                 THEN <<ItersOfProcessArcs(pinGroup, "timing", TimingSlots),
                        ItersOfProcessArcs(pinGroup, "internal_power", PowerSlots)>>
                 ELSE <<>>))

\* processCellPins: cellSubgroups
ItersOfProcessCellPins(cellGroup) ==
    Scoped(RunSteps([k \in 1..Len(cellGroup.groups) |->
                        IF cellGroup.groups[k].type = "pin"
                        THEN ItersOfReadPin(cellGroup.groups[k])
                        ELSE NoIters]))

\* the body of the cell loop of processCells: names, processCellPins, and
\* subGrps of processLeakage
ItersOfReadCell(cellGroup) ==
    RunSteps(<<NamesIter, ItersOfProcessCellPins(cellGroup), Scoped(NoIters)>>)

\* processCells: groups
ItersOfProcessCells(libraryGroup) ==
    Scoped(RunSteps([k \in 1..Len(libraryGroup.groups) |->
                        IF libraryGroup.groups[k].type = "cell"
                        THEN ItersOfReadCell(libraryGroup.groups[k])
                        ELSE NoIters]))

\* the top-level loop of parseLibertyAndGetCells: topGroups
ItersOfParseTraversal(topGroups) ==
    Scoped(RunSteps([k \in 1..Len(topGroups) |-> ItersOfProcessCells(topGroups[k])]))

\* n calls of addArcLut, each with its subGroups
ItersOfAddArcLuts(n) == [ok |-> TRUE, o |-> n, r |-> n]

\* updateTimingArcs: pinGroups, and six addArcLut for every matched group
ItersOfUpdateTimingArcs(jsonArcs, pinGroup) ==
    Scoped(RunSteps([k \in 1..Len(pinGroup.groups) |->
        IF /\ pinGroup.groups[k].type = "timing"
           /\ \E i \in 1..Len(jsonArcs) :
                 timingArcEquals(ExistingTimingArc(pinGroup.groups[k]), jsonArcs[i])
        THEN ItersOfAddArcLuts(6)
        ELSE NoIters]))

\* updatePowerArcs: pinGroups, and two addArcLut for every matched group
ItersOfUpdatePowerArcs(jsonArcs, pinGroup) ==
    Scoped(RunSteps([k \in 1..Len(pinGroup.groups) |->
        IF /\ pinGroup.groups[k].type = "internal_power"
           /\ \E i \in 1..Len(jsonArcs) :
                 powerArcEquals(ExistingPowerArc(pinGroup.groups[k]), jsonArcs[i])
        THEN ItersOfAddArcLuts(2)
        ELSE NoIters]))

\* the arcs of the patch pin the pin group is matched with, <<>> when with none
ArcsOfMatch(pins, pinGroup, field) ==
    IF \E i \in 1..Len(pins) : pins[i].pinName = FirstName(pinGroup)[1]
    THEN <<(pins[CHOOSE i \in 1..Len(pins) :
                    /\ pins[i].pinName = FirstName(pinGroup)[1]
                    /\ \A j \in 1..(i - 1) : pins[j].pinName # FirstName(pinGroup)[1]])[field]>>
    ELSE <<>>

\* updateTimingArcs and updatePowerArcs of a matched pin
ItersOfUpdateArcs(timingArcs, powerArcs, pinGroup) ==
    IF timingArcs = <<>> THEN NoIters
    ELSE Then(ItersOfUpdateTimingArcs(timingArcs[1], pinGroup),
              ItersOfUpdatePowerArcs(powerArcs[1], pinGroup))

\* the body of the pin loop of updateLibertyFile: pnames, then the two updates
ItersOfUpdatePin(jsonCell, pinGroup) ==
    IF pinGroup.type # "pin" THEN NoIters
    ELSE IF FirstName(pinGroup) = <<>> THEN NamesIter
    ELSE IF DirectionOf(pinGroup) = <<"input">>
    THEN Then(NamesIter,
              ItersOfUpdateArcs(ArcsOfMatch(jsonCell.inputPins, pinGroup, "timingArcs"),
                                ArcsOfMatch(jsonCell.inputPins, pinGroup, "powerArcs"),
                                pinGroup))
    ELSE IF DirectionOf(pinGroup) = <<"output">>
    THEN Then(NamesIter,
              ItersOfUpdateArcs(ArcsOfMatch(jsonCell.outputPins, pinGroup, "timingArcs"),
                                ArcsOfMatch(jsonCell.outputPins, pinGroup, "powerArcs"),
                                pinGroup))
    ELSE NamesIter

\* a matched cell: subGrps of updateLeakages, then cellSubgroups and the pin loop
ItersOfUpdateMatched(jsonCell, cellGroup) ==
    Then(Scoped(NoIters),
         Scoped(RunSteps([k \in 1..Len(cellGroup.groups) |->
                            ItersOfUpdatePin(jsonCell, cellGroup.groups[k])])))

\* the body of the cell loop of updateLibertyFile: names, then the two skips
ItersOfUpdateCell(cellGroup, jsonCells) ==
    IF cellGroup.type # "cell" THEN NoIters
    ELSE IF FirstName(cellGroup) = <<>>
            \/ \A i \in 1..Len(jsonCells) : jsonCells[i].cellName # FirstName(cellGroup)[1]
    THEN NamesIter
    ELSE Then(NamesIter,
              ItersOfUpdateMatched(
                  jsonCells[CHOOSE i \in 1..Len(jsonCells) :
                      /\ jsonCells[i].cellName = FirstName(cellGroup)[1]
                      /\ \A j \in 1..(i - 1) : jsonCells[j].cellName # FirstName(cellGroup)[1]],
                  cellGroup))

\* updateLibertyFile: groups
ItersOfUpdateLibertyFile(libraryGroup, jsonCells) ==
    Scoped(RunSteps([k \in 1..Len(libraryGroup.groups) |->
                        ItersOfUpdateCell(libraryGroup.groups[k], jsonCells)]))

\* the update loop of modifyLibertyFile: topGroups
ItersOfModifyTraversal(topGroups, jsonCells) ==
    Scoped(RunSteps([k \in 1..Len(topGroups) |->
                        ItersOfUpdateLibertyFile(topGroups[k], jsonCells)]))

\* the counts so far and those of one more traversal
Counted(sofar, more) == [o |-> sofar.o + more.o, r |-> sofar.r + more.r]

-----------------------------------------------------------------------------
(* The inputs of the model: Liberty trees, patch documents, library refusals *)

\* a LUT subgroup as the patcher writes it: one string for index_1, one for
\* index_2 when there is one, one string per row of values
LutGroup(type, index1, index2, rows) ==
    Group(type, <<"tmpl">>,
          ("index_1" :> ComplexAttr(<<StringValue(EncodeRow(index1))>>))
          @@ (IF index2 = <<>> THEN NoAttrs
              ELSE ("index_2" :> ComplexAttr(<<StringValue(EncodeRow(index2))>>)))
          @@ ("values" :> ComplexAttr([i \in 1..Len(rows) |->
                                          StringValue(EncodeRow(rows[i]))])),
          <<>>)

TimingYA_pos ==
    Group("timing", <<>>,
          ("related_pin" :> StringAttr("A")) @@ ("timing_type" :> StringAttr("combinational"))
          @@ ("timing_sense" :> StringAttr("positive_unate")),
          <<LutGroup("cell_rise", <<100, 200>>, <<>>, <<<<1000, 2000>>>>),
            LutGroup("rise_transition", <<100>>, <<300, 400>>, <<<<500, 600>>>>)>>)

TimingYA_neg ==
    Group("timing", <<>>,
          ("related_pin" :> StringAttr("A")) @@ ("timing_type" :> StringAttr("combinational"))
          @@ ("timing_sense" :> StringAttr("negative_unate")),
          <<LutGroup("cell_rise", <<100, 200>>, <<>>, <<<<1100, 2100>>>>),
            LutGroup("cell_fall", <<100, 200>>, <<>>, <<<<-700, 0>>>>)>>)

TimingYB ==
    Group("timing", <<>>, ("related_pin" :> StringAttr("B")),
          <<LutGroup("cell_fall", <<100>>, <<>>, <<<<900>>>>)>>)

PowerA ==
    Group("internal_power", <<>>,
          ("related_pin" :> StringAttr("A")) @@ ("related_pg_pin" :> StringAttr("VDD")),
          <<LutGroup("rise_power", <<100>>, <<>>, <<<<50>>>>)>>)

SetupA ==
    Group("timing", <<>>,
          ("related_pin" :> StringAttr("CK")) @@ ("timing_type" :> StringAttr("setup_rising")),
          <<LutGroup("rise_constraint", <<100>>, <<>>, <<<<20>>>>)>>)

PinA ==
    Group("pin", <<"A">>,
          ("direction" :> StringAttr("input")) @@ ("capacitance" :> FloatAttr(1500))
          @@ ("rise_capacitance" :> FloatAttr(1600))
          @@ ("rise_capacitance_range" :> ComplexAttr(<<Float64Value(1000), Float64Value(2000)>>)),
          <<SetupA, PowerA>>)

PinY ==
    Group("pin", <<"Y">>,
          ("direction" :> StringAttr("output")) @@ ("function" :> StringAttr("!A")),
          <<TimingYA_pos, TimingYA_neg, TimingYB, PowerA>>)

PinA_capOnly ==
    Group("pin", <<"A">>,
          ("direction" :> StringAttr("input")) @@ ("capacitance" :> FloatAttr(1200)), <<>>)

PinZ_inout ==
    Group("pin", <<"Z">>,
          ("direction" :> StringAttr("inout")) @@ ("capacitance" :> FloatAttr(1000)),
          <<TimingYB>>)

PinB_noDirection ==
    Group("pin", <<"B">>, ("capacitance" :> FloatAttr(1000)), <<>>)

LeakA ==
    Group("leakage_power", <<>>,
          ("value" :> FloatAttr(2500)) @@ ("when" :> StringAttr("A"))
          @@ ("related_pg_pin" :> StringAttr("VDD")), <<>>)

LeakBare == Group("leakage_power", <<>>, NoAttrs, <<>>)

CellINV == Group("cell", <<"INV">>, ("area" :> FloatAttr(1000)), <<LeakA, PinA, PinY>>)

CellBUF ==
    Group("cell", <<"BUF">>, NoAttrs,
          <<PinA_capOnly, PinZ_inout, LeakBare, PinB_noDirection, PinY>>)

\* a timing group whose fall_transition values are rows of different lengths
TimingRagged ==
    Group("timing", <<>>, ("related_pin" :> StringAttr("A")),
          <<LutGroup("fall_transition", <<100, 200>>, <<300, 400>>,
                     <<<<1000, 2000>>, <<3000>>>>)>>)

\* a timing group with none of the attributes and subgroups the extractor reads
TimingBare == Group("timing", <<>>, ("sdf_cond" :> StringAttr("A")), <<>>)

PinQ_ragged ==
    Group("pin", <<"Q">>, ("direction" :> StringAttr("output")), <<TimingRagged, TimingBare>>)

CellAnon == Group("cell", <<>>, NoAttrs, <<PinA_capOnly, LeakA, PinQ_ragged>>)

\* a cell whose index_1 string ends in ", ": its last token is a blank
CellBAD ==
    Group("cell", <<"BAD">>, NoAttrs,
          <<Group("pin", <<"Y">>, ("direction" :> StringAttr("output")),
                  <<Group("timing", <<>>, ("related_pin" :> StringAttr("A")),
                          <<Group("cell_rise", <<"tmpl">>,
                                  ("index_1" :> ComplexAttr(<<StringValue(<<"1", ",", " ">>)>>)),
                                  <<>>)>>)>>)>>)

\* a second leakage group of the key of LeakA, a second internal_power group of
\* the key of PowerA, and a cell named as CellINV that holds them and two pins
\* named A
LeakA_other ==
    Group("leakage_power", <<>>,
          ("value" :> FloatAttr(2600)) @@ ("when" :> StringAttr("A"))
          @@ ("related_pg_pin" :> StringAttr("VDD")), <<>>)

PowerA_fall ==
    Group("internal_power", <<>>,
          ("related_pin" :> StringAttr("A")) @@ ("related_pg_pin" :> StringAttr("VDD")),
          <<LutGroup("rise_power", <<100>>, <<>>, <<<<60>>>>),
            LutGroup("fall_power", <<100>>, <<>>, <<<<70>>>>)>>)

PinA_twinPower ==
    Group("pin", <<"A">>,
          ("direction" :> StringAttr("input")) @@ ("capacitance" :> FloatAttr(1500))
          @@ ("fall_capacitance" :> FloatAttr(1550)),
          <<PowerA, PowerA_fall>>)

CellTWIN ==
    Group("cell", <<"INV">>, NoAttrs,
          <<LeakA, LeakA_other, PinA_twinPower, PinA_capOnly, PinY>>)

\* a cell whose pins have different names and whose timing, internal_power and
\* leakage_power groups have different keys under each parent
PinY_oneKeyEach ==
    Group("pin", <<"Y">>,
          ("direction" :> StringAttr("output")) @@ ("function" :> StringAttr("!(A+B)")),
          <<TimingYA_pos, TimingYB, PowerA>>)

CellNOR == Group("cell", <<"NOR">>, NoAttrs, <<LeakA, LeakBare, PinA, PinY_oneKeyEach>>)

TreeCells == {CellINV, CellBUF, CellAnon, CellBAD, CellTWIN, CellNOR}

OperatingConditions ==
    Group("operating_conditions", <<"typ">>, ("voltage" :> FloatAttr(1100)), <<>>)

Library(cs) ==
    Group("library", <<"lib">>,
          ("nom_voltage" :> FloatAttr(1100)) @@ ("nom_temperature" :> IntAttr(25)),
          <<OperatingConditions>> \o cs)

SeqsUpTo(S, n) == UNION {[1..m -> S] : m \in 0..n}

\* the sequences of at most n different elements of S
DistinctSeqsUpTo(S, n) ==
    {s \in SeqsUpTo(S, n) : \A i, j \in DOMAIN s : i # j => s[i] # s[j]}

\* a Liberty file cannot be read, or holds a top-level group `group`, followed
\* in one file of the model by a second one
LibFiles ==
    {[readable |-> FALSE]}
    \cup {[readable |-> TRUE, group |-> Library(cs), rest |-> <<>>] :
            cs \in DistinctSeqsUpTo(TreeCells, MaxCells)}
    \cup {[readable |-> TRUE, group |-> Library(<<CellBUF>>), rest |-> <<Library(<<CellINV>>)>>]}

\* si2drPIGetGroups after the file was read
TopGroupsOf(lib) == <<lib.group>> \o lib.rest

PatchLut1 == [index1 |-> <<150, 250>>, values |-> <<<<3000, 4000>>>>]
PatchLut2 == [index1 |-> <<150>>, index2 |-> <<350, 450>>, values |-> <<<<5500, 6500>>>>]

PatchINV_capacitance ==
    [cell_name |-> "INV",
     input_pins |->
        <<[pin_name |-> "A", capacitance |-> 1700,
           power_arcs |-> <<[related_pin |-> "A", related_pg_pin |-> "VDD",
                             cell_fall |-> PatchLut1]>>]>>,
     output_pins |->
        <<[pin_name |-> "Y",
           timing_arcs |->
              <<[related_pin |-> "A", timing_type |-> "combinational",
                 timing_sense |-> "positive_unate",
                 cell_rise |-> PatchLut1, rise_transition |-> PatchLut2],
                [related_pin |-> "A", timing_type |-> "combinational",
                 timing_sense |-> "negative_unate", cell_rise |-> PatchLut2]>>]>>,
     leakage_power |-> <<[value |-> 3500, when |-> "A", related_pg_pin |-> "VDD"]>>]

PatchINV_ranges ==
    [cell_name |-> "INV",
     input_pins |->
        <<[pin_name |-> "A", rise_capacitance |-> 1800, fall_capacitance |-> 1900,
           rise_capacitance_range |-> <<1100, 2100>>,
           fall_capacitance_range |-> <<1300, 2300>>,
           power_arcs |-> <<[related_pin |-> "A", related_pg_pin |-> "VDD",
                             cell_rise |-> PatchLut1],
                            [related_pin |-> "A", related_pg_pin |-> "VDD",
                             cell_rise |-> PatchLut2]>>]>>,
     output_pins |->
        <<[pin_name |-> "Y",
           timing_arcs |-> <<[related_pin |-> "B", cell_fall |-> PatchLut1],
                             [related_pin |-> "A", timing_type |-> "combinational",
                              timing_sense |-> "negative_unate", cell_rise |-> PatchLut2]>>]>>,
     leakage_power |-> <<[value |-> 7500, when |-> "!A", related_pg_pin |-> "VDD"]>>]

PatchBUF ==
    [cell_name |-> "BUF",
     input_pins |-> <<[pin_name |-> "Z", capacitance |-> 1400],
                      [pin_name |-> "B", capacitance |-> 1400],
                      [pin_name |-> "A", capacitance |-> 1400, rise_capacitance |-> 1450,
                       fall_capacitance_range |-> <<1300>>],
                      [pin_name |-> "A", capacitance |-> 1350],
                      [pin_name |-> "Y", capacitance |-> 1250,
                       timing_arcs |-> <<[related_pin |-> "B", cell_fall |-> PatchLut1]>>]>>,
     output_pins |-> <<[pin_name |-> "A", function |-> "Z"]>>,
     leakage_power |-> <<[value |-> 4500], [value |-> 4600]>>]

PatchNAND ==
    [cell_name |-> "NAND",
     input_pins |-> <<[pin_name |-> "A", capacitance |-> 9000]>>,
     output_pins |->
        <<[pin_name |-> "Y",
           timing_arcs |->
              <<[related_pin |-> "A",
                 cell_fall |-> [index1 |-> <<150, 250>>, index2 |-> <<350, 450>>,
                                values |-> <<<<3000, 4000>>, <<5000>>>>]]>>]>>,
     leakage_power |-> <<[value |-> 9500, when |-> "A", related_pg_pin |-> "VDD"]>>]

PatchCells == {PatchINV_capacitance, PatchINV_ranges, PatchBUF, PatchNAND}

\* the document an extraction of the Liberty file with a dump file writes
ExtractedDoc(r) == dumpCellsToJson(r.cells, r.pvt)

ExtractedFile(lib) ==
    [state |-> "ok", doc |-> ExtractedDoc(ProcessTopGroups(TopGroupsOf(lib), <<>>, PVT))]

\* the Liberty files of which the model has the extracted document as a patch
ExtractedLibFiles ==
    {[readable |-> TRUE, group |-> Library(cs), rest |-> <<>>] :
        cs \in DistinctSeqsUpTo({CellNOR, CellAnon}, MaxCells) \ {<<>>}}

JsonFiles ==
    {[state |-> "missing"], [state |-> "malformed"]}
    \cup {[state |-> "ok",
           doc |-> [voltage |-> 900, temperature |-> 125, process |-> <<1>>, cells |-> cs]] :
            cs \in DistinctSeqsUpTo(PatchCells, MaxPatchCells)}
    \cup {ExtractedFile(lib) : lib \in ExtractedLibFiles}

EnvPlans ==
    {NoFaults,
     [NoFaults EXCEPT !.noWrite = TRUE],
     [NoFaults EXCEPT !.noDelete = {<<"cell_rise", "index_1">>, <<"rise_transition", "values">>,
                                     <<"pin", "rise_capacitance_range">>}],
     [NoFaults EXCEPT !.noCreate = {<<"cell_rise", "values">>, <<"leakage_power", "value">>}]}

ProcessNames == {"SS", "TT", "FF", ""}
DumpNames == {"", "out.json"}

\* the doubles given to the row codec
FloatVals == {0, 100, 1500, -1500, 1234567}

-----------------------------------------------------------------------------
(* The entry points *)

NoFile == [state |-> "absent"]

RunInit ==
    /\ pc = "idle"
    /\ op = "none"
    /\ originalLibFile = [readable |-> FALSE]
    /\ jsonFile = [state |-> "missing"]
    /\ env = NoFaults
    /\ process = ""
    /\ dumpJsonFile = ""
    /\ tree = <<>>
    /\ cells = <<>>
    /\ pvt = PVT
    /\ err = "SI2DR_NO_ERROR"
    /\ result = FALSE
    /\ outputLibFile = NoFile
    /\ dumpOut = NoFile
    /\ calls = <<>>
    /\ iters = [o |-> 0, r |-> 0]

Init ==
    /\ RunInit
    /\ vec = <<>>
    /\ encoded = Group("cell_rise", <<>>, NoAttrs, <<>>)
    /\ decoded = [ok |-> TRUE, lut |-> DataLut]
    /\ cpc = "idle"

\* modifyLibertyFile, step 1: the call and loadJsonToCells (lines 861-868); an
\* exception of the loader leaves the function
modifyLoad(lib, json, e) ==
    /\ pc = "idle"
    /\ op' = "modify"
    /\ originalLibFile' = lib
    /\ jsonFile' = json
    /\ env' = e
    /\ LET r == loadJsonToCells(json)
       IN  /\ cells' = r.cells
           /\ pvt' = r.pvt
           /\ pc' = IF r.thrown THEN "thrown" ELSE IF r.ok THEN "m_loaded" ELSE "done"
    /\ result' = FALSE
    /\ UNCHANGED <<process, dumpJsonFile, tree, err, outputLibFile, dumpOut, calls, iters>>
    /\ UNCHANGED codecVars

\* step 2 had the status of si2drReadLibertyFile not been tested
modifyRead_ignoreError ==
    /\ pc = "m_loaded"
    /\ tree' = IF originalLibFile.readable THEN TopGroupsOf(originalLibFile) ELSE <<>>
    /\ calls' = calls \o <<"si2drPIInit", "si2drReadLibertyFile">>
    /\ pc' = "m_read"
    /\ err' = IF originalLibFile.readable THEN "SI2DR_NO_ERROR" ELSE "SI2DR_INVALID_NAME"
    /\ result' = FALSE
    /\ UNCHANGED <<op, originalLibFile, jsonFile, env, process, dumpJsonFile, cells, pvt,
                   outputLibFile, dumpOut, iters>>
    /\ UNCHANGED codecVars

\* step 2: si2drPIInit, si2drReadLibertyFile and the failure return (lines 870-879)
modifyRead ==
    /\ pc = "m_loaded"
    /\ IF originalLibFile.readable
       THEN /\ tree' = TopGroupsOf(originalLibFile)
            /\ calls' = calls \o <<"si2drPIInit", "si2drReadLibertyFile">>
            /\ pc' = "m_read"
       ELSE /\ tree' = <<>>
            /\ calls' = calls \o <<"si2drPIInit", "si2drReadLibertyFile", "si2drPIQuit">>
            /\ pc' = "done"
    /\ err' = "SI2DR_NO_ERROR"
    /\ result' = FALSE
    /\ UNCHANGED <<op, originalLibFile, jsonFile, env, process, dumpJsonFile, cells, pvt,
                   outputLibFile, dumpOut, iters>>
    /\ UNCHANGED codecVars

\* step 3: the update of every top-level group (lines 881-887)
modifyUpdate ==
    /\ pc = "m_read"
    /\ tree' = [i \in 1..Len(tree) |-> updateLibertyFile(tree[i], cells, env)]
    /\ calls' = Append(calls, "updateLibertyFile")
    /\ err' = "SI2DR_NO_ERROR"
    /\ iters' = Counted(iters, ItersOfModifyTraversal(tree, cells))
    /\ pc' = "m_updated"
    /\ UNCHANGED <<op, originalLibFile, jsonFile, env, process, dumpJsonFile, cells, pvt,
                   result, outputLibFile, dumpOut>>
    /\ UNCHANGED codecVars

\* step 4: si2drPIGetGroups and si2drWriteLibertyFile of the first top-level
\* group (lines 889-895)
modifyWrite ==
    /\ pc = "m_updated"
    /\ IF tree = <<>>
       THEN /\ err' = "SI2DR_NO_ERROR"
            /\ UNCHANGED <<outputLibFile, calls>>
       ELSE /\ calls' = Append(calls, "si2drWriteLibertyFile")
            /\ IF env.noWrite
               THEN /\ err' = "SI2DR_INVALID_NAME"
                    /\ outputLibFile' = [state |-> "failed"]
               ELSE /\ err' = "SI2DR_NO_ERROR"
                    /\ outputLibFile' = [state |-> "written", group |-> tree[1]]
    /\ iters' = [iters EXCEPT !.o = @ + 1]
    /\ pc' = "m_written"
    /\ UNCHANGED <<op, originalLibFile, jsonFile, env, process, dumpJsonFile, tree, cells,
                   pvt, result, dumpOut>>
    /\ UNCHANGED codecVars

\* step 5: si2drIterQuit, si2drPIQuit, the test of err and the return
\* (lines 896-905); err holds what si2drPIQuit stored
modifyReturn ==
    /\ pc = "m_written"
    /\ calls' = Append(calls, "si2drPIQuit")
    /\ tree' = <<>>
    /\ err' = "SI2DR_NO_ERROR"
    /\ result' = (err' = "SI2DR_NO_ERROR")
    /\ iters' = [iters EXCEPT !.r = @ + 1]
    /\ pc' = "done"
    /\ UNCHANGED <<op, originalLibFile, jsonFile, env, process, dumpJsonFile, cells, pvt,
                   outputLibFile, dumpOut>>
    /\ UNCHANGED codecVars

\* process == "SS" / "TT" / "FF" (lines 692-701)
ProcVal(name) ==
    IF name = "SS" THEN <<1>> ELSE IF name = "TT" THEN <<2>>
    ELSE IF name = "FF" THEN <<3>> ELSE <<>>

\* step 1 had the failure return given the pvt with the process set
parseRead_keepProcess(lib, proc, dump, e) ==
    /\ pc = "idle"
    /\ op' = "parse"
    /\ originalLibFile' = lib
    /\ process' = proc
    /\ dumpJsonFile' = dump
    /\ env' = e
    /\ cells' = <<>>
    /\ pvt' = [PVT EXCEPT !.process = ProcVal(proc)]
    /\ IF lib.readable
       THEN /\ tree' = TopGroupsOf(lib)
            /\ calls' = calls \o <<"si2drPIInit", "si2drReadLibertyFile">>
            /\ pc' = "p_read"
       ELSE /\ tree' = <<>>
            /\ calls' = calls \o <<"si2drPIInit", "si2drReadLibertyFile", "si2drPIQuit">>
            /\ pc' = "done"
    /\ err' = "SI2DR_NO_ERROR"
    /\ UNCHANGED <<jsonFile, result, outputLibFile, dumpOut, iters>>
    /\ UNCHANGED codecVars

\* parseLibertyAndGetCells, step 1: the call, si2drPIInit, si2drReadLibertyFile
\* and the failure return (lines 691-716)
parseRead(lib, proc, dump, e) ==
    /\ pc = "idle"
    /\ op' = "parse"
    /\ originalLibFile' = lib
    /\ process' = proc
    /\ dumpJsonFile' = dump
    /\ env' = e
    /\ cells' = <<>>
    /\ IF lib.readable
       THEN /\ tree' = TopGroupsOf(lib)
            /\ calls' = calls \o <<"si2drPIInit", "si2drReadLibertyFile">>
            /\ pvt' = [PVT EXCEPT !.process = ProcVal(proc)]
            /\ pc' = "p_read"
       ELSE /\ tree' = <<>>
            /\ calls' = calls \o <<"si2drPIInit", "si2drReadLibertyFile", "si2drPIQuit">>
            /\ pvt' = PVT
            /\ pc' = "done"
    /\ err' = "SI2DR_NO_ERROR"
    /\ UNCHANGED <<jsonFile, result, outputLibFile, dumpOut, iters>>
    /\ UNCHANGED codecVars

\* the traversal had it deleted the groups it visited
parseTraverse_deleting ==
    /\ pc = "p_read"
    /\ LET r == ProcessTopGroups(tree, cells, pvt)
       IN  /\ cells' = r.cells
           /\ pvt' = r.pvt
           /\ pc' = IF r.ok THEN "p_traversed" ELSE "thrown"
    /\ calls' = Append(calls, "processCells")
    /\ iters' = Counted(iters, ItersOfParseTraversal(tree))
    /\ err' = "SI2DR_NO_ERROR"
    /\ tree' = [i \in 1..Len(tree) |-> [tree[i] EXCEPT !.groups = <<>>]]
    /\ UNCHANGED <<op, originalLibFile, jsonFile, env, process, dumpJsonFile, result,
                   outputLibFile, dumpOut>>
    /\ UNCHANGED codecVars

\* step 2: the traversal of the top-level groups (lines 718-724); an exception
\* of std::stod leaves the function
parseTraverse ==
    /\ pc = "p_read"
    /\ LET r == ProcessTopGroups(tree, cells, pvt)
       IN  /\ cells' = r.cells
           /\ pvt' = r.pvt
           /\ pc' = IF r.ok THEN "p_traversed" ELSE "thrown"
    /\ calls' = Append(calls, "processCells")
    /\ iters' = Counted(iters, ItersOfParseTraversal(tree))
    /\ err' = "SI2DR_NO_ERROR"
    /\ UNCHANGED <<op, originalLibFile, jsonFile, env, process, dumpJsonFile, tree, result,
                   outputLibFile, dumpOut>>
    /\ UNCHANGED codecVars

\* step 3: si2drPIQuit, the optional dump and the return (lines 726-733)
parseReturn ==
    /\ pc = "p_traversed"
    /\ calls' = Append(calls, "si2drPIQuit")
    /\ tree' = <<>>
    /\ err' = "SI2DR_NO_ERROR"
    /\ dumpOut' = IF dumpJsonFile = "" \/ env.noWrite THEN dumpOut
                  ELSE [state |-> "written", doc |-> dumpCellsToJson(cells, pvt)]
    /\ pc' = "done"
    /\ UNCHANGED <<op, originalLibFile, jsonFile, env, process, dumpJsonFile, cells, pvt,
                   result, outputLibFile, iters>>
    /\ UNCHANGED codecVars

Next ==
    \/ \E lib \in LibFiles, json \in JsonFiles, e \in EnvPlans : modifyLoad(lib, json, e)
    \/ modifyRead
    \/ modifyUpdate
    \/ modifyWrite
    \/ modifyReturn
    \/ \E lib \in LibFiles, proc \in ProcessNames, dump \in DumpNames, e \in EnvPlans :
          parseRead(lib, proc, dump, e)
    \/ parseTraverse
    \/ parseReturn

Spec == Init /\ [][Next]_vars

-----------------------------------------------------------------------------
(* The row codec on its own: the patcher's encoder, then the extractor's decoder *)

CodecInit ==
    /\ RunInit
    /\ vec \in SeqsUpTo(FloatVals, MaxLen)
    /\ encoded = Group("cell_rise", <<>>, NoAttrs, <<>>)
    /\ decoded = [ok |-> TRUE, lut |-> DataLut]
    /\ cpc = "input"

\* addArcLut writes vec as index_1 and as the one row of values
CodecEncode ==
    /\ cpc = "input"
    /\ encoded' = addArcLutToGroup(encoded,
                     [index1 |-> vec, index2 |-> <<>>, values |-> <<vec>>], NoFaults)
    /\ cpc' = "encoded"
    /\ UNCHANGED <<vec, decoded>>
    /\ UNCHANGED runVars

\* fillDataLut reads the subgroup back
CodecDecode ==
    /\ cpc = "encoded"
    /\ decoded' = fillDataLut(encoded, DataLut)
    /\ cpc' = "decoded"
    /\ UNCHANGED <<vec, encoded>>
    /\ UNCHANGED runVars

CodecNext == CodecEncode \/ CodecDecode

SpecCodec == CodecInit /\ [][CodecNext]_vars

-----------------------------------------------------------------------------
(* The decoder on strings as the tree library returns them: vec holds the     *)
(* strings of the rows, encoded the LUT group read from the file, which holds *)
(* them as index_1, as one values string per row, or as one values string of  *)
(* all the rows with line breaks between them.                                *)

RowTexts ==
    {<<"1", ",", " ", "2">>, <<"3">>, <<>>, <<"4", ",", " ">>, <<"x">>, <<"5", "x">>,
     <<"6", ",", ",", "7">>}

RECURSIVE JoinLines(_)
JoinLines(rows) ==
    IF rows = <<>> THEN <<>>
    ELSE IF Len(rows) = 1 THEN rows[1]
    ELSE rows[1] \o <<"\n">> \o JoinLines(Tail(rows))

StringValues(rows) == [i \in 1..Len(rows) |-> StringValue(rows[i])]

IndexGroup(rows) ==
    Group("cell_rise", <<"tmpl">>, ("index_1" :> ComplexAttr(StringValues(rows))), <<>>)

SeparateRows(rows) ==
    Group("cell_rise", <<"tmpl">>, ("values" :> ComplexAttr(StringValues(rows))), <<>>)

JoinedRows(rows) ==
    Group("cell_rise", <<"tmpl">>,
          ("values" :> ComplexAttr(<<StringValue(JoinLines(rows))>>)), <<>>)

RowsInit ==
    /\ RunInit
    /\ vec \in SeqsUpTo(RowTexts, MaxLen)
    /\ encoded \in {IndexGroup(vec), SeparateRows(vec), JoinedRows(vec)}
    /\ decoded = [ok |-> TRUE, lut |-> DataLut]
    /\ cpc = "encoded"

RowsNext == CodecDecode

SpecRows == RowsInit /\ [][RowsNext]_vars

-----------------------------------------------------------------------------
(* Properties of the patcher.  Between modifyUpdate and modifyWrite the tree   *)
(* holds the patched library and originalLibFile.group the library as read.   *)

Patched == pc = "m_updated" /\ tree # <<>>

\* the attribute `name` of `group`: <<value>>, or <<>> when it is absent
AttrOf(group, name) ==
    IF name \in DOMAIN group.attrs THEN <<group.attrs[name]>> ELSE <<>>

\* the entries of the loaded patch that name the cell / the input pin / the output pin
CellEntries(cName) == {k \in 1..Len(cells) : cells[k].cellName = cName}
InputEntries(cell, pName) ==
    {k \in 1..Len(cell.inputPins) : cell.inputPins[k].pinName = pName}
OutputEntries(cell, pName) ==
    {k \in 1..Len(cell.outputPins) : cell.outputPins[k].pinName = pName}

Least(S) == CHOOSE k \in S : \A m \in S : k <= m

IsNamed(group, type) == group.type = type /\ group.names # <<>>

\* the patch entry that stands for the input pin pinGroup of cellGroup: the first
\* input pin of that name in the first patch cell of that name; <<>> when none
InputEntryFor(cellGroup, pinGroup) ==
    IF /\ IsNamed(cellGroup, "cell") /\ IsNamed(pinGroup, "pin")
       /\ DirectionOf(pinGroup) = <<"input">>
       /\ CellEntries(cellGroup.names[1]) # {}
       /\ InputEntries(cells[Least(CellEntries(cellGroup.names[1]))], pinGroup.names[1]) # {}
    THEN <<cells[Least(CellEntries(cellGroup.names[1]))].inputPins[
             Least(InputEntries(cells[Least(CellEntries(cellGroup.names[1]))],
                                pinGroup.names[1]))]>>
    ELSE <<>>

\* the same for an output pin
OutputEntryFor(cellGroup, pinGroup) ==
    IF /\ IsNamed(cellGroup, "cell") /\ IsNamed(pinGroup, "pin")
       /\ DirectionOf(pinGroup) = <<"output">>
       /\ CellEntries(cellGroup.names[1]) # {}
       /\ OutputEntries(cells[Least(CellEntries(cellGroup.names[1]))], pinGroup.names[1]) # {}
    THEN <<cells[Least(CellEntries(cellGroup.names[1]))].outputPins[
             Least(OutputEntries(cells[Least(CellEntries(cellGroup.names[1]))],
                                 pinGroup.names[1]))]>>
    ELSE <<>>

\* the positions <<c, p>> of the pin groups of the library as read
OldCell(c) == originalLibFile.group.groups[c]
NewCell(c) == tree[1].groups[c]

PinPositions ==
    UNION {{<<c, p>> : p \in 1..Len(OldCell(c).groups)} :
              c \in 1..Len(originalLibFile.group.groups)}

OldPin(cp) == OldCell(cp[1]).groups[cp[2]]
NewPin(cp) == NewCell(cp[1]).groups[cp[2]]

\* the attributes of the pin that the patch entry `e` leaves absent keep their value
AbsentOnesKept(e, old, new) ==
    /\ e.capacitance = <<>> => AttrOf(new, "capacitance") = AttrOf(old, "capacitance")
    /\ e.rise_capacitance = <<>> =>
          AttrOf(new, "rise_capacitance") = AttrOf(old, "rise_capacitance")
    /\ e.fall_capacitance = <<>> =>
          AttrOf(new, "fall_capacitance") = AttrOf(old, "fall_capacitance")
    /\ e.rise_capacitance_range = <<<<>>, <<>>>> =>
          AttrOf(new, "rise_capacitance_range") = AttrOf(old, "rise_capacitance_range")
    /\ e.fall_capacitance_range = <<<<>>, <<>>>> =>
          AttrOf(new, "fall_capacitance_range") = AttrOf(old, "fall_capacitance_range")

\* C1: for every input pin of the tree that the patch matches, each scalar
\* capacitance the patch entry leaves absent and each capacitance range of
\* which the patch entry has neither component is the same (value or absence)
\* after the update as before
C1_SelectiveOverwrite ==
    Patched =>
        \A cp \in PinPositions :
            InputEntryFor(OldCell(cp[1]), OldPin(cp)) # <<>> =>
                AbsentOnesKept(InputEntryFor(OldCell(cp[1]), OldPin(cp))[1],
                               OldPin(cp), NewPin(cp))

\* C1 witness: a matched input pin whose patch entry gives capacitance and no
\* rise_capacitance; capacitance was overwritten, rise_capacitance was set in
\* the tree and is still what it was
C1_Witness ==
    /\ Patched
    /\ \E cp \in PinPositions :
          /\ InputEntryFor(OldCell(cp[1]), OldPin(cp)) # <<>>
          /\ InputEntryFor(OldCell(cp[1]), OldPin(cp))[1].capacitance # <<>>
          /\ InputEntryFor(OldCell(cp[1]), OldPin(cp))[1].rise_capacitance = <<>>
          /\ AttrOf(NewPin(cp), "capacitance") # AttrOf(OldPin(cp), "capacitance")
          /\ AttrOf(OldPin(cp), "rise_capacitance") # <<>>
          /\ AttrOf(NewPin(cp), "rise_capacitance") = AttrOf(OldPin(cp), "rise_capacitance")

\* C2: every cell group whose name equals no cell_name of the patch document is
\* identical after the update, and a patch none of whose cell names is in the
\* tree leaves the whole library identical
C2_NoMatchSafety ==
    Patched =>
        /\ \A c \in 1..Len(originalLibFile.group.groups) :
              (IsNamed(OldCell(c), "cell") /\ CellEntries(OldCell(c).names[1]) = {})
                  => NewCell(c) = OldCell(c)
        /\ (\A c \in 1..Len(originalLibFile.group.groups) :
                IsNamed(OldCell(c), "cell") => CellEntries(OldCell(c).names[1]) = {})
              => tree[1] = originalLibFile.group

\* C2 witness: the patch names a cell that is not in the tree, the tree has a
\* cell the patch does not name, which is unchanged, and another cell was changed
C2_Witness ==
    /\ Patched
    /\ \E k \in 1..Len(cells) :
          \A c \in 1..Len(originalLibFile.group.groups) :
              IsNamed(OldCell(c), "cell") => OldCell(c).names[1] # cells[k].cellName
    /\ \E c \in 1..Len(originalLibFile.group.groups) :
          /\ IsNamed(OldCell(c), "cell")
          /\ CellEntries(OldCell(c).names[1]) = {}
          /\ NewCell(c) = OldCell(c)
    /\ \E c \in 1..Len(originalLibFile.group.groups) : NewCell(c) # OldCell(c)

\* the patch timing arcs offered to the pin: those of its patch entry
ArcsOffered(cellGroup, pinGroup) ==
    IF InputEntryFor(cellGroup, pinGroup) # <<>>
    THEN InputEntryFor(cellGroup, pinGroup)[1].timingArcs
    ELSE IF OutputEntryFor(cellGroup, pinGroup) # <<>>
    THEN OutputEntryFor(cellGroup, pinGroup)[1].timingArcs
    ELSE <<>>

\* the string attribute of the tree, an absent one counting as ""
TextOf(group, name) ==
    IF AttrOf(group, name) # <<>> /\ AttrOf(group, name)[1].k = "string"
    THEN AttrOf(group, name)[1].s ELSE ""

\* the offered arcs whose (when, related_pin, timing_type) is that of the group
SameTriple(arcs, timingGroup) ==
    {k \in 1..Len(arcs) :
        /\ arcs[k].when = TextOf(timingGroup, "when")
        /\ arcs[k].relatedPin = TextOf(timingGroup, "related_pin")
        /\ arcs[k].timingType = TextOf(timingGroup, "timing_type")}

\* the positions <<c, p, t>> of the timing groups of the library as read
TimingPositions ==
    UNION {{<<cp[1], cp[2], t>> : t \in {u \in 1..Len(OldPin(cp).groups) :
                                            OldPin(cp).groups[u].type = "timing"}} :
              cp \in PinPositions}

OldTiming(cpt) == OldCell(cpt[1]).groups[cpt[2]].groups[cpt[3]]
NewTiming(cpt) == NewCell(cpt[1]).groups[cpt[2]].groups[cpt[3]]
ArcsFor(cpt) == ArcsOffered(OldCell(cpt[1]), OldCell(cpt[1]).groups[cpt[2]])

\* C3: a patch timing arc is applied to a tree timing group exactly when their
\* (when, related_pin, timing_type) triples are equal, an absent tree attribute
\* counting as the empty string; the first such arc is the one applied, and
\* timing_sense plays no part
C3_IdentityKeyMatching ==
    Patched =>
        \A cpt \in TimingPositions :
            IF SameTriple(ArcsFor(cpt), OldTiming(cpt)) = {}
            THEN NewTiming(cpt) = OldTiming(cpt)
            ELSE NewTiming(cpt) =
                    addTimingArcValues(OldTiming(cpt),
                        ArcsFor(cpt)[Least(SameTriple(ArcsFor(cpt), OldTiming(cpt)))], env)

\* C3 witness: a timing group was rewritten from a patch arc of the same triple
\* whose timing_sense is not the group's
C3_Witness ==
    /\ Patched
    /\ \E cpt \in TimingPositions :
          /\ SameTriple(ArcsFor(cpt), OldTiming(cpt)) # {}
          /\ ArcsFor(cpt)[Least(SameTriple(ArcsFor(cpt), OldTiming(cpt)))].timingSense
                # TextOf(OldTiming(cpt), "timing_sense")
          /\ TextOf(OldTiming(cpt), "timing_sense") # ""
          /\ NewTiming(cpt) # OldTiming(cpt)

-----------------------------------------------------------------------------
(* Properties of the row codec *)

\* C5: decoding the string the encoder produces for a sequence of floats v
\* gives back exactly v
C5_RoundTrip ==
    cpc = "decoded" => (decoded.ok /\ decoded.lut.index1 = vec)

-----------------------------------------------------------------------------
(* Properties of the extractor.  After parseTraverse, cells is what the        *)
(* traversal extracted from tree.                                             *)

Traversed == op = "parse" /\ pc = "p_traversed" /\ tree # <<>>

NameOf(group) == IF group.names = <<>> THEN "" ELSE group.names[1]

CellGroupsOf(lib) == SelectSeq(lib.groups, LAMBDA g : g.type = "cell")

\* the cell groups of the top-level groups, in tree order
RECURSIVE CellGroupsIn(_)
CellGroupsIn(topGroups) ==
    IF topGroups = <<>> THEN <<>>
    ELSE CellGroupsOf(Head(topGroups)) \o CellGroupsIn(Tail(topGroups))

PinGroupsOf(cellGroup, direction) ==
    SelectSeq(cellGroup.groups,
              LAMBDA g : g.type = "pin" /\ TextOf(g, "direction") = direction)

TimingGroupsOf(pinGroup) == SelectSeq(pinGroup.groups, LAMBDA g : g.type = "timing")

\* the strings of the values attribute of the LUT group are the rows, encoded
RowsAre(rows, lutGroup) ==
    AttrOf(lutGroup, "values") =
        <<ComplexAttr([i \in 1..Len(rows) |-> StringValue(EncodeRow(rows[i]))])>>

\* the TimingArc is the timing group: its key fields and, where the group has
\* one cell_rise subgroup, the rows of that subgroup
ArcIsGroup(arc, timingGroup) ==
    /\ arc.relatedPin = TextOf(timingGroup, "related_pin")
    /\ arc.when = TextOf(timingGroup, "when")
    /\ arc.timingType = TextOf(timingGroup, "timing_type")
    /\ arc.timingSense = TextOf(timingGroup, "timing_sense")
    /\ \A k \in 1..Len(timingGroup.groups) :
          (/\ timingGroup.groups[k].type = "cell_rise"
           /\ \A m \in 1..Len(timingGroup.groups) :
                 timingGroup.groups[m].type = "cell_rise" => m = k)
              => RowsAre(arc.cellRise.values, timingGroup.groups[k])

ArcsAreGroups(arcs, timingGroups) ==
    /\ Len(arcs) = Len(timingGroups)
    /\ \A k \in 1..Len(timingGroups) : ArcIsGroup(arcs[k], timingGroups[k])

\* the capacitance of the pin group as an optional double
CapacitanceOf(pinGroup) ==
    IF AttrOf(pinGroup, "capacitance") = <<>> THEN <<>>
    ELSE <<AttrOf(pinGroup, "capacitance")[1].f>>

CellIsGroup(cell, cellGroup) ==
    /\ cell.cellName = NameOf(cellGroup)
    /\ Len(cell.inputPins) = Len(PinGroupsOf(cellGroup, "input"))
    /\ \A j \in 1..Len(cell.inputPins) :
          /\ cell.inputPins[j].pinName = NameOf(PinGroupsOf(cellGroup, "input")[j])
          /\ cell.inputPins[j].capacitance = CapacitanceOf(PinGroupsOf(cellGroup, "input")[j])
          /\ ArcsAreGroups(cell.inputPins[j].timingArcs,
                           TimingGroupsOf(PinGroupsOf(cellGroup, "input")[j]))
    /\ Len(cell.outputPins) = Len(PinGroupsOf(cellGroup, "output"))
    /\ \A j \in 1..Len(cell.outputPins) :
          /\ cell.outputPins[j].pinName = NameOf(PinGroupsOf(cellGroup, "output")[j])
          /\ ArcsAreGroups(cell.outputPins[j].timingArcs,
                           TimingGroupsOf(PinGroupsOf(cellGroup, "output")[j]))

\* C6: extraction yields one cell per cell group in tree order, within a cell
\* one input pin per pin group of direction input and one output pin per pin
\* group of direction output, within a pin one timing arc per timing subgroup,
\* each list in tree order, and the extracted fields are the tree's attributes
C6_ExtractionComplete ==
    Traversed =>
        /\ Len(cells) = Len(CellGroupsIn(tree))
        /\ \A i \in 1..Len(cells) : CellIsGroup(cells[i], CellGroupsIn(tree)[i])

\* C6 witness: two cells were extracted, one with an input pin of capacitance
\* 1500 and an output pin with three timing arcs whose first has the cell_rise
\* rows <<1000, 2000>>
C6_Witness ==
    /\ Traversed
    /\ Len(cells) = 2
    /\ \E i \in 1..Len(cells) :
          /\ cells[i].inputPins # <<>>
          /\ cells[i].inputPins[1].capacitance = <<1500>>
          /\ cells[i].outputPins # <<>>
          /\ Len(cells[i].outputPins[1].timingArcs) = 3
          /\ cells[i].outputPins[1].timingArcs[1].cellRise.values = <<<<1000, 2000>>>>

\* C10: the traversal of parseLibertyAndGetCells leaves the groups and the
\* attributes of the tree as they were
C10_ExtractionReadOnly == [][pc = "p_read" => tree' = tree]_vars

\* C10 witness: cells were extracted and the tree is the library as read
C10_Witness ==
    /\ Traversed
    /\ cells # <<>>
    /\ tree = TopGroupsOf(originalLibFile)

-----------------------------------------------------------------------------
(* Properties of the result of modifyLibertyFile *)

Returned == op = "modify" /\ pc = "done"

\* C7: when the patch document cannot be opened or parsed the call returns
\* false without initialising or reading the tree and without writing; when the
\* tree cannot be read it returns false without updating and without writing
C7_FatalFailures ==
    /\ (Returned /\ jsonFile.state # "ok") =>
          (result = FALSE /\ calls = <<>> /\ outputLibFile = NoFile)
    /\ (Returned /\ jsonFile.state = "ok" /\ ~originalLibFile.readable) =>
          /\ result = FALSE
          /\ \A k \in 1..Len(calls) :
                calls[k] \notin {"updateLibertyFile", "si2drWriteLibertyFile"}
          /\ outputLibFile = NoFile

\* C7 witness: a call with a well-formed patch document and an unreadable
\* Liberty file has returned false, having tried to read the file
C7_Witness ==
    /\ Returned
    /\ jsonFile.state = "ok"
    /\ jsonFile.doc.cells # <<>>
    /\ ~originalLibFile.readable
    /\ result = FALSE
    /\ \E k \in 1..Len(calls) : calls[k] = "si2drReadLibertyFile"

\* C8: when writing the output tree fails, modifyLibertyFile returns false
C8_WriteFailureReturnsFalse ==
    (Returned /\ outputLibFile.state = "failed") => result = FALSE

\* the group types whose attributes are rewritten as a whole, one after another
LutTypes == DOMAIN TimingSlots \cup DOMAIN PowerSlots

\* the attribute `name` of a group of type `type` is out of reach of every refusal
NotStruck(type, name, struck) ==
    IF type \in LutTypes THEN \A key \in struck : key[1] # type
    ELSE <<type, name>> \notin struck

\* group g is group r in everything the refusals `struck` leave alone
RECURSIVE SameButStruck(_, _, _)
SameButStruck(g, r, struck) ==
    /\ g.type = r.type
    /\ g.names = r.names
    /\ \A n \in DOMAIN g.attrs \cup DOMAIN r.attrs :
          NotStruck(g.type, n, struck) => AttrOf(g, n) = AttrOf(r, n)
    /\ Len(g.groups) = Len(r.groups)
    /\ \A i \in 1..Len(g.groups) : SameButStruck(g.groups[i], r.groups[i], struck)

\* C9: a refused delete or create of an attribute does not stop the traversal
\* and does not change the result: when the document was parsed, the tree read
\* and the write not refused, modifyLibertyFile returns true, the output is
\* written, and every attribute the refusals do not strike is what the patch
\* without refusals makes it
C9_SoftErrorsAbsorbed ==
    (Returned /\ jsonFile.state = "ok" /\ originalLibFile.readable /\ ~env.noWrite) =>
        /\ result = TRUE
        /\ outputLibFile.state = "written"
        /\ SameButStruck(outputLibFile.group,
                         updateLibertyFile(originalLibFile.group, cells, NoFaults),
                         env.noDelete \cup env.noCreate)

\* C9 witness: a refusal struck (the output is not what the patch without
\* refusals writes), yet the output was written, differs from the library as
\* read, and the call returned true
C9_Witness ==
    /\ Returned
    /\ env.noDelete \cup env.noCreate # {}
    /\ result = TRUE
    /\ outputLibFile.state = "written"
    /\ outputLibFile.group # updateLibertyFile(originalLibFile.group, cells, NoFaults)
    /\ outputLibFile.group # originalLibFile.group

-----------------------------------------------------------------------------
(* Properties of the slots and attributes the patcher writes *)

\* the patch power arcs offered to the pin: those of its patch entry
PowerArcsOffered(cellGroup, pinGroup) ==
    IF InputEntryFor(cellGroup, pinGroup) # <<>>
    THEN InputEntryFor(cellGroup, pinGroup)[1].powerArcs
    ELSE IF OutputEntryFor(cellGroup, pinGroup) # <<>>
    THEN OutputEntryFor(cellGroup, pinGroup)[1].powerArcs
    ELSE <<>>

\* the offered arcs whose (when, related_pin, related_pg_pin) is that of the group
SamePowerKey(arcs, powerGroup) ==
    {k \in 1..Len(arcs) :
        /\ arcs[k].when = TextOf(powerGroup, "when")
        /\ arcs[k].relatedPin = TextOf(powerGroup, "related_pin")
        /\ arcs[k].relatedPGpin = TextOf(powerGroup, "related_pg_pin")}

\* the positions <<c, p, t>> of the internal_power groups of the library as read
PowerPositions ==
    UNION {{<<cp[1], cp[2], t>> : t \in {u \in 1..Len(OldPin(cp).groups) :
                                            OldPin(cp).groups[u].type = "internal_power"}} :
              cp \in PinPositions}

PowerArcsFor(cpt) == PowerArcsOffered(OldCell(cpt[1]), OldCell(cpt[1]).groups[cpt[2]])

\* every subgroup of `group` of a kind named in `slots` reads back as the Lut
\* the arc holds for that kind
SlotsAre(group, arc, slots) ==
    \A k \in 1..Len(group.groups) :
        group.groups[k].type \in DOMAIN slots =>
            fillDataLut(group.groups[k], DataLut)
                = [ok |-> TRUE, lut |-> arc[slots[group.groups[k].type]]]

\* C11: when the library refuses nothing, every LUT subgroup of the six (two)
\* named kinds under a timing (internal_power) group matched by a patch arc
\* holds, after the update, index_1, index_2 and values equal to the Lut of
\* that kind in the patch arc, empty or not
C11_FullSlotReplace ==
    (Patched /\ env = NoFaults) =>
        /\ \A cpt \in TimingPositions :
              SameTriple(ArcsFor(cpt), OldTiming(cpt)) # {} =>
                  SlotsAre(NewTiming(cpt),
                           ArcsFor(cpt)[Least(SameTriple(ArcsFor(cpt), OldTiming(cpt)))],
                           TimingSlots)
        /\ \A cpt \in PowerPositions :
              SamePowerKey(PowerArcsFor(cpt), OldTiming(cpt)) # {} =>
                  SlotsAre(NewTiming(cpt),
                           PowerArcsFor(cpt)[Least(SamePowerKey(PowerArcsFor(cpt),
                                                                OldTiming(cpt)))],
                           PowerSlots)

\* the scalar capacitance `name` the patch entry `e` holds is the attribute's value
ScalarWritten(e, new, name) ==
    e[name] # <<>> => AttrOf(new, name) = <<FloatAttr(e[name][1])>>

\* C12: for a matched input pin, each of capacitance, rise_capacitance and
\* fall_capacitance that the patch entry holds is the value of the pin's
\* attribute after the update, whether or not the pin had the attribute
C12_ScalarsWritten ==
    Patched =>
        \A cp \in PinPositions :
            InputEntryFor(OldCell(cp[1]), OldPin(cp)) # <<>> =>
                \A name \in {"capacitance", "rise_capacitance", "fall_capacitance"} :
                    ScalarWritten(InputEntryFor(OldCell(cp[1]), OldPin(cp))[1],
                                  NewPin(cp), name)

\* the patch leakage entries offered to the leakage groups of the cell
LeakagesOffered(cellGroup) ==
    IF IsNamed(cellGroup, "cell") /\ CellEntries(cellGroup.names[1]) # {}
    THEN cells[Least(CellEntries(cellGroup.names[1]))].leakages
    ELSE <<>>

\* the offered entries whose (when, related_pg_pin) is that of the group
SameLeakageKey(entries, leakageGroup) ==
    {k \in 1..Len(entries) :
        /\ entries[k].when = TextOf(leakageGroup, "when")
        /\ entries[k].relatedPGpin = TextOf(leakageGroup, "related_pg_pin")}

\* the positions <<c, l>> of the leakage_power groups of the library as read
LeakagePositions == {cp \in PinPositions : OldPin(cp).type = "leakage_power"}

LeakagesFor(cp) == LeakagesOffered(OldCell(cp[1]))

\* the library refuses to create the attribute `name`, which the group lacks
CreateRefused(old, name) ==
    AttrOf(old, name) = <<>> /\ <<old.type, name>> \in env.noCreate

\* the string attribute `name` is written from the entry's string exactly when
\* that string is not empty
StringWritten(text, old, new, name) ==
    IF text # "" /\ ~CreateRefused(old, name)
    THEN AttrOf(new, name) = <<StringAttr(text)>>
    ELSE AttrOf(new, name) = AttrOf(old, name)

\* the leakage group `new` is `old` updated from the patch entry `e`
LeakageUpdated(e, old, new) ==
    /\ IF CreateRefused(old, "value") THEN AttrOf(new, "value") = <<>>
       ELSE AttrOf(new, "value") = <<FloatAttr(e.value)>>
    /\ StringWritten(e.when, old, new, "when")
    /\ StringWritten(e.relatedPGpin, old, new, "related_pg_pin")
    /\ \A n \in (DOMAIN old.attrs \cup DOMAIN new.attrs)
                    \ {"value", "when", "related_pg_pin"} :
          AttrOf(new, n) = AttrOf(old, n)
    /\ new.type = old.type /\ new.names = old.names /\ new.groups = old.groups

\* C13: a leakage_power group under a matched cell whose (when,
\* related_pg_pin) equals that of a patch leakage entry holds, after the
\* update, a value attribute equal to the value of the first such entry,
\* created when the group had none (unless the library refuses the creation);
\* when and related_pg_pin are written only from a non-empty string of the
\* entry; a leakage group with no entry of its key is unchanged
C13_LeakageOverwrite ==
    Patched =>
        \A cp \in LeakagePositions :
            IF SameLeakageKey(LeakagesFor(cp), OldPin(cp)) = {}
            THEN NewPin(cp) = OldPin(cp)
            ELSE LeakageUpdated(
                    LeakagesFor(cp)[Least(SameLeakageKey(LeakagesFor(cp), OldPin(cp)))],
                    OldPin(cp), NewPin(cp))

\* C13 witness: in one cell a leakage group without a value attribute got the
\* value of the patch entry of its key, and in a patched cell a leakage group
\* with no entry of its key is what it was
C13_Witness ==
    /\ Patched
    /\ \E cp \in LeakagePositions :
          /\ SameLeakageKey(LeakagesFor(cp), OldPin(cp)) # {}
          /\ AttrOf(OldPin(cp), "value") = <<>>
          /\ AttrOf(NewPin(cp), "value") # <<>>
    /\ \E cp \in LeakagePositions :
          /\ LeakagesFor(cp) # <<>>
          /\ SameLeakageKey(LeakagesFor(cp), OldPin(cp)) = {}
          /\ NewPin(cp) = OldPin(cp)

\* the elements of s at the positions idx, in the order of s
SubSeqAt(s, idx) ==
    [k \in 1..Cardinality(idx) |->
        s[CHOOSE i \in idx : Cardinality({j \in idx : j <= i}) = k]]

\* s without the elements that have an earlier element of the same key
KeepFirst(s, Same(_, _)) ==
    SubSeqAt(s, {i \in 1..Len(s) : \A j \in 1..(i - 1) : ~Same(s[j], s[i])})

SamePinName(a, b) == a.pinName = b.pinName
SameCellName(a, b) == a.cellName = b.cellName

\* the pin entry with, of the arcs of one key, the first only
FirstArcsOnly(pin) ==
    [pin EXCEPT !.timingArcs = KeepFirst(@, timingArcEquals),
                !.powerArcs = KeepFirst(@, powerArcEquals)]

\* the cell entry with, of the pins of one name and the leakage entries of
\* one key, the first only
FirstMembersOnly(cell) ==
    [cell EXCEPT
        !.leakages = KeepFirst(@, leakageEquals),
        !.inputPins = KeepFirst([i \in 1..Len(@) |-> FirstArcsOnly(@[i])], SamePinName),
        !.outputPins = KeepFirst([i \in 1..Len(@) |-> FirstArcsOnly(@[i])], SamePinName)]

\* the loaded patch with, in every list, the first entry of each identity key only
FirstEntriesOnly(cs) ==
    KeepFirst([i \in 1..Len(cs) |-> FirstMembersOnly(cs[i])], SameCellName)

\* C14: of several entries of one identity key in one list of the patch
\* (cells and pins by name, leakage entries, timing arcs, power arcs) the first
\* in document order is the one a tree node of that key is updated from, and
\* the later ones have no effect: the patched tree is the tree patched from the
\* document without them
C14_FirstMatchWins ==
    Patched =>
        tree[1] = updateLibertyFile(originalLibFile.group, FirstEntriesOnly(cells), env)

\* C14 witness: the patch holds two cells of one name and, in its first cell,
\* two timing arcs of one key; a timing group of that key was rewritten with
\* the cell_rise rows of the first arc, which are not those of the second
C14_Witness ==
    /\ Patched
    /\ Len(FirstEntriesOnly(cells)) < Len(cells)
    /\ \E cpt \in TimingPositions :
          /\ Cardinality(SameTriple(ArcsFor(cpt), OldTiming(cpt))) > 1
          /\ \E k \in 1..Len(NewTiming(cpt).groups) :
                /\ NewTiming(cpt).groups[k].type = "cell_rise"
                /\ NewTiming(cpt).groups[k] # OldTiming(cpt).groups[k]
                /\ RowsAre(ArcsFor(cpt)[Least(SameTriple(ArcsFor(cpt), OldTiming(cpt)))]
                               .cellRise.values,
                           NewTiming(cpt).groups[k])
                /\ \E m \in SameTriple(ArcsFor(cpt), OldTiming(cpt)) :
                      ~RowsAre(ArcsFor(cpt)[m].cellRise.values, NewTiming(cpt).groups[k])

\* recreateComplexAttr(lutGroup, "index_1") returns an attribute
Index1Recreated(lutGroup) ==
    /\ ~("index_1" \in DOMAIN lutGroup.attrs /\ <<lutGroup.type, "index_1">> \in env.noDelete)
    /\ <<lutGroup.type, "index_1">> \notin env.noCreate

\* replacing the slot lutGroup by `lut` comes to delete one of its three
\* attributes, and the library refuses that delete
SlotDeleteFails(lutGroup, lut) ==
    \/ "index_1" \in DOMAIN lutGroup.attrs /\ <<lutGroup.type, "index_1">> \in env.noDelete
    \/ /\ Index1Recreated(lutGroup)
       /\ \/ /\ lut.index2 # <<>>
             /\ "index_2" \in DOMAIN lutGroup.attrs
             /\ <<lutGroup.type, "index_2">> \in env.noDelete
          \/ /\ "values" \in DOMAIN lutGroup.attrs
             /\ <<lutGroup.type, "values">> \in env.noDelete

\* the slots of `old` whose replace from `arc` meets a refused delete are the
\* same in `new`
FailedSlotsKept(old, new, arc, slots) ==
    \A k \in 1..Len(old.groups) :
        (/\ old.groups[k].type \in DOMAIN slots
         /\ SlotDeleteFails(old.groups[k], arc[slots[old.groups[k].type]]))
            => new.groups[k] = old.groups[k]

\* the range `name` the entry `e` rewrites, whose delete the library refuses,
\* is the same in `new`
FailedRangeKept(e, old, new, name) ==
    (/\ RangeHasSide(e[name])
     /\ name \in DOMAIN old.attrs
     /\ <<old.type, name>> \in env.noDelete)
        => AttrOf(new, name) = AttrOf(old, name)

\* C15: when the delete of an existing index_1, index_2 or values fails during
\* the replace of a LUT slot, the slot (all three attributes) is after the
\* update exactly what it was; when the delete of an existing capacitance
\* range fails, so is the range
C15_FailedDeleteKeepsSlot ==
    Patched =>
        /\ \A cpt \in TimingPositions :
              SameTriple(ArcsFor(cpt), OldTiming(cpt)) # {} =>
                  FailedSlotsKept(OldTiming(cpt), NewTiming(cpt),
                      ArcsFor(cpt)[Least(SameTriple(ArcsFor(cpt), OldTiming(cpt)))],
                      TimingSlots)
        /\ \A cpt \in PowerPositions :
              SamePowerKey(PowerArcsFor(cpt), OldTiming(cpt)) # {} =>
                  FailedSlotsKept(OldTiming(cpt), NewTiming(cpt),
                      PowerArcsFor(cpt)[Least(SamePowerKey(PowerArcsFor(cpt), OldTiming(cpt)))],
                      PowerSlots)
        /\ \A cp \in PinPositions :
              InputEntryFor(OldCell(cp[1]), OldPin(cp)) # <<>> =>
                  \A name \in {"rise_capacitance_range", "fall_capacitance_range"} :
                      FailedRangeKept(InputEntryFor(OldCell(cp[1]), OldPin(cp))[1],
                                      OldPin(cp), NewPin(cp), name)

-----------------------------------------------------------------------------
(* Properties of the use of the tree library *)

Ended == pc \in {"done", "thrown"}

\* C16: when an extraction or a patch has ended, by a return or by the
\* exception of a value token that does not parse, every iterator it obtained
\* from the tree has been released
C16_IteratorsReleased == Ended => iters.r = iters.o

\* the place of a call in the life cycle init, read, traversal, write, quit
Rank(call) ==
    IF call = "si2drPIInit" THEN 1
    ELSE IF call = "si2drReadLibertyFile" THEN 2
    ELSE IF call \in {"processCells", "updateLibertyFile"} THEN 3
    ELSE IF call = "si2drWriteLibertyFile" THEN 4
    ELSE 5

\* C17: the calls of a run on the tree library are made in the order init,
\* read, traversal, write, quit, each at most once and the first of them init;
\* a write is made by a patch only; and when the run has ended, on whatever
\* path, an init was followed by its quit, the last call of the run
C17_LibraryLifeCycle ==
    /\ \A k \in 1..Len(calls) : \A m \in 1..(k - 1) : Rank(calls[m]) < Rank(calls[k])
    /\ calls # <<>> => calls[1] = "si2drPIInit"
    /\ op = "parse" => \A k \in 1..Len(calls) : calls[k] # "si2drWriteLibertyFile"
    /\ (Ended /\ calls # <<>>) => calls[Len(calls)] = "si2drPIQuit"

-----------------------------------------------------------------------------
(* Properties of the dispatch on the direction of a pin *)

\* the pin groups of the cell group whose direction is neither input nor output
OtherPinGroupsOf(cellGroup) ==
    SelectSeq(cellGroup.groups,
              LAMBDA g : g.type = "pin" /\ TextOf(g, "direction") \notin {"input", "output"})

AllPinGroupsOf(cellGroup) == SelectSeq(cellGroup.groups, LAMBDA g : g.type = "pin")

\* the names of the pins of a list, in order
PinNames(pins) == [j \in 1..Len(pins) |-> pins[j].pinName]
GroupNames(groups) == [j \in 1..Len(groups) |-> NameOf(groups[j])]

\* the positions of the pin groups of the library as read
PinGroupPositions == {cp \in PinPositions : OldPin(cp).type = "pin"}

\* C18: a pin group whose direction is absent or neither input nor output is
\* in neither pin list of the extracted cell and is left as it was by the
\* patch; a pin group of direction input is changed by the patch only from an
\* entry of its name in input_pins of the patch cell, one of direction output
\* only from an entry of its name in output_pins
C18_DirectionDispatch ==
    /\ Traversed =>
          \A i \in 1..Len(cells) :
              /\ PinNames(cells[i].inputPins)
                    = GroupNames(PinGroupsOf(CellGroupsIn(tree)[i], "input"))
              /\ PinNames(cells[i].outputPins)
                    = GroupNames(PinGroupsOf(CellGroupsIn(tree)[i], "output"))
              /\ Len(cells[i].inputPins) + Len(cells[i].outputPins)
                    + Len(OtherPinGroupsOf(CellGroupsIn(tree)[i]))
                    = Len(AllPinGroupsOf(CellGroupsIn(tree)[i]))
    /\ Patched =>
          \A cp \in PinGroupPositions :
              /\ DirectionOf(OldPin(cp)) \notin {<<"input">>, <<"output">>}
                    => NewPin(cp) = OldPin(cp)
              /\ (DirectionOf(OldPin(cp)) = <<"input">>
                  /\ InputEntryFor(OldCell(cp[1]), OldPin(cp)) = <<>>)
                    => NewPin(cp) = OldPin(cp)
              /\ (DirectionOf(OldPin(cp)) = <<"output">>
                  /\ OutputEntryFor(OldCell(cp[1]), OldPin(cp)) = <<>>)
                    => NewPin(cp) = OldPin(cp)

\* the patch cell of the cell group has an input entry named as the pin group
\* that holds a capacitance other than the pin's
InputEntryWouldChange(cellGroup, pinGroup) ==
    /\ IsNamed(cellGroup, "cell") /\ IsNamed(pinGroup, "pin")
    /\ CellEntries(cellGroup.names[1]) # {}
    /\ \E k \in InputEntries(cells[Least(CellEntries(cellGroup.names[1]))],
                             pinGroup.names[1]) :
          LET e == cells[Least(CellEntries(cellGroup.names[1]))].inputPins[k]
          IN  \/ /\ e.capacitance # <<>>
                 /\ AttrOf(pinGroup, "capacitance") \notin {<<>>, <<FloatAttr(e.capacitance[1])>>}
              \/ \E t \in 1..Len(pinGroup.groups) :
                    /\ pinGroup.groups[t].type = "timing"
                    /\ SameTriple(e.timingArcs, pinGroup.groups[t]) # {}

\* C18 witness: in a patched cell, a pin of direction inout and an output pin
\* each have an input entry of their name in the patch cell that would change
\* them, and both are what they were, while an input pin of the cell changed
C18_Witness ==
    /\ Patched
    /\ \E c \in 1..Len(originalLibFile.group.groups) :
          /\ \E p \in 1..Len(OldCell(c).groups) :
                /\ OldCell(c).groups[p].type = "pin"
                /\ DirectionOf(OldCell(c).groups[p]) = <<"inout">>
                /\ InputEntryWouldChange(OldCell(c), OldCell(c).groups[p])
                /\ NewCell(c).groups[p] = OldCell(c).groups[p]
          /\ \E p \in 1..Len(OldCell(c).groups) :
                /\ OldCell(c).groups[p].type = "pin"
                /\ DirectionOf(OldCell(c).groups[p]) = <<"output">>
                /\ InputEntryWouldChange(OldCell(c), OldCell(c).groups[p])
                /\ NewCell(c).groups[p] = OldCell(c).groups[p]
          /\ \E p \in 1..Len(OldCell(c).groups) :
                /\ DirectionOf(OldCell(c).groups[p]) = <<"input">>
                /\ NewCell(c).groups[p] # OldCell(c).groups[p]

-----------------------------------------------------------------------------
(* Properties of capacitance ranges *)

RangeNames == {"rise_capacitance_range", "fall_capacitance_range"}

\* the side n of a range array of the document, 0.0 where the array lacks it
SideOr0(arr, n) == IF Len(arr) >= n THEN <<arr[n]>> ELSE <<0>>

Loaded == op = "modify" /\ pc = "m_loaded"
Dumped == op = "parse" /\ pc = "done" /\ dumpOut.state = "written"

\* C19: a range array present in the document is read as a range with both
\* sides, a side the array lacks being 0.0; and the written document holds a
\* range, as an array of two elements, exactly for the ranges of which at least
\* one side has a value
C19_RangeSides ==
    /\ Loaded =>
          \A i \in 1..Len(cells) : \A j \in 1..Len(cells[i].inputPins) :
              \A name \in RangeNames :
                  name \in DOMAIN jsonFile.doc.cells[i].input_pins[j] =>
                      cells[i].inputPins[j][name]
                          = <<SideOr0(jsonFile.doc.cells[i].input_pins[j][name], 1),
                              SideOr0(jsonFile.doc.cells[i].input_pins[j][name], 2)>>
    /\ Dumped =>
          \A i \in 1..Len(cells) : \A j \in 1..Len(cells[i].inputPins) :
              \A name \in RangeNames :
                  /\ name \in DOMAIN dumpOut.doc.cells[i].input_pins[j]
                        <=> RangeHasSide(cells[i].inputPins[j][name])
                  /\ name \in DOMAIN dumpOut.doc.cells[i].input_pins[j]
                        => Len(dumpOut.doc.cells[i].input_pins[j][name]) = 2

\* the library refuses the delete or the create that rewriting `name` needs
RecreateRefused(old, name) ==
    \/ name \in DOMAIN old.attrs /\ <<old.type, name>> \in env.noDelete
    \/ <<old.type, name>> \in env.noCreate

\* C20: a capacitance range that the patch rewrites in a pin of the tree is,
\* after the update, a complex attribute of exactly two values, the first and
\* the second side of the patch entry in that order
C20_RangeTwoValues ==
    Patched =>
        \A cp \in PinGroupPositions :
            InputEntryFor(OldCell(cp[1]), OldPin(cp)) # <<>> =>
                \A name \in RangeNames :
                    (/\ RangeHasSide(InputEntryFor(OldCell(cp[1]), OldPin(cp))[1][name])
                     /\ ~RecreateRefused(OldPin(cp), name))
                        => /\ InputEntryFor(OldCell(cp[1]), OldPin(cp))[1][name][1] # <<>>
                           /\ InputEntryFor(OldCell(cp[1]), OldPin(cp))[1][name][2] # <<>>
                           /\ AttrOf(NewPin(cp), name)
                                 = <<ComplexAttr(
                                       <<Float64Value(InputEntryFor(OldCell(cp[1]),
                                                          OldPin(cp))[1][name][1][1]),
                                         Float64Value(InputEntryFor(OldCell(cp[1]),
                                                          OldPin(cp))[1][name][2][1])>>)>>

\* C20 witness: the patch document holds a range array of two elements and one
\* of one element; a pin got a range attribute it did not have, and another of
\* its ranges was replaced by two other values
C20_Witness ==
    /\ Patched
    /\ \E i \in 1..Len(jsonFile.doc.cells) :
          /\ "input_pins" \in DOMAIN jsonFile.doc.cells[i]
          /\ \E j \in 1..Len(jsonFile.doc.cells[i].input_pins) : \E name \in RangeNames :
                /\ name \in DOMAIN jsonFile.doc.cells[i].input_pins[j]
                /\ Len(jsonFile.doc.cells[i].input_pins[j][name]) = 1
    /\ \E cp \in PinGroupPositions :
          /\ AttrOf(OldPin(cp), "fall_capacitance_range") = <<>>
          /\ AttrOf(NewPin(cp), "fall_capacitance_range") # <<>>
          /\ AttrOf(OldPin(cp), "rise_capacitance_range") # <<>>
          /\ AttrOf(NewPin(cp), "rise_capacitance_range") # <<>>
          /\ AttrOf(NewPin(cp), "rise_capacitance_range")
                # AttrOf(OldPin(cp), "rise_capacitance_range")

-----------------------------------------------------------------------------
(* Properties of the decoder *)

RowsDecoded == cpc = "decoded" /\ "values" \in DOMAIN encoded.attrs

\* C21: the rows extracted from a values attribute are the same, in the same
\* order, whether the attribute holds one string per row or one string of the
\* same rows with line breaks between them; a token that does not parse ends
\* both extractions
C21_ValuesShapes ==
    RowsDecoded =>
        /\ decoded = fillDataLut(SeparateRows(vec), DataLut)
        /\ decoded = fillDataLut(JoinedRows(vec), DataLut)

\* C21 witness: three rows held as one string with line breaks were extracted
\* as three rows, not all alike
C21_Witness ==
    /\ RowsDecoded
    /\ Len(vec) = 3
    /\ encoded = JoinedRows(vec)
    /\ encoded # SeparateRows(vec)
    /\ decoded.ok
    /\ Len(decoded.lut.values) = 3
    /\ decoded.lut.values[1] # decoded.lut.values[2]

\* white space removed from both ends of a token
RECURSIVE TrimRight(_)
TrimRight(s) ==
    IF s # <<>> /\ IsSpace(s[Len(s)]) THEN TrimRight(SubSeq(s, 1, Len(s) - 1)) ELSE s

Trim(s) == TrimRight(SkipSpace(s))

\* the text is a float: a sign or none, digits with or without a fraction, and
\* nothing else
IsFloatText(s) ==
    LET body == IF s # <<>> /\ s[1] \in {"-", "+"} THEN Tail(s) ELSE s
        ip == TakeDigits(body)
        rest == SubSeq(body, Len(ip) + 1, Len(body))
        fs == IF rest # <<>> /\ rest[1] = "." THEN TakeDigits(Tail(rest)) ELSE <<>>
    IN  /\ ip # <<>> \/ fs # <<>>
        /\ rest = (IF rest # <<>> /\ rest[1] = "." THEN <<".">> \o fs ELSE <<>>)

\* the pieces of s between the delimiters d, the empty ones included
RECURSIVE SplitOn(_, _)
SplitOn(s, d) ==
    IF IndexOf(s, d, 1) = 0 THEN <<s>>
    ELSE <<SubSeq(s, 1, IndexOf(s, d, 1) - 1)>>
         \o SplitOn(SubSeq(s, IndexOf(s, d, 1) + 1, Len(s)), d)

\* the tokens of the row text that are not empty once trimmed
TokensOf(text) == SelectSeq(SplitOn(text, ","), LAMBDA t : Trim(t) # <<>>)

\* the row decoded as stated: a parse error when a token is not a float, the
\* floats of the tokens otherwise
RowAsStated(text) ==
    IF \A k \in 1..Len(TokensOf(text)) : IsFloatText(Trim(TokensOf(text)[k]))
    THEN [ok |-> TRUE, v |-> [k \in 1..Len(TokensOf(text)) |-> stod(Trim(TokensOf(text)[k])).v]]
    ELSE [ok |-> FALSE, v |-> <<>>]

OneRowDecoded == cpc = "decoded" /\ Len(vec) = 1 /\ encoded = IndexGroup(vec)

\* C22: a row text is split on ','; a token that is empty once white space is
\* trimmed is ignored, like the one after a trailing ", "; any other token that
\* is not a float makes the decoding fail, and no value is given for it
C22_RowDecoding ==
    OneRowDecoded =>
        /\ decoded.ok = RowAsStated(vec[1]).ok
        /\ decoded.ok => decoded.lut.index1 = RowAsStated(vec[1]).v

-----------------------------------------------------------------------------
(* Properties of the data model *)

\* the Luts of the arcs of a pin
LutsOfPin(pin) ==
    UNION {{pin.timingArcs[k][TimingSlots[t]] : t \in DOMAIN TimingSlots} :
              k \in 1..Len(pin.timingArcs)}
    \cup UNION {{pin.powerArcs[k][PowerSlots[t]] : t \in DOMAIN PowerSlots} :
                   k \in 1..Len(pin.powerArcs)}

LutsOfCell(cell) ==
    UNION {LutsOfPin(cell.inputPins[j]) : j \in 1..Len(cell.inputPins)}
    \cup UNION {LutsOfPin(cell.outputPins[j]) : j \in 1..Len(cell.outputPins)}

Rectangular(lut) ==
    \A i, j \in 1..Len(lut.values) : Len(lut.values[i]) = Len(lut.values[j])

\* C23: the values of every Lut of the cells extracted from a tree, and of
\* every Lut of the cells read from a patch document, are empty or rows of one
\* length
C23_RowsOfOneLength ==
    (Traversed \/ Loaded) =>
        \A i \in 1..Len(cells) : \A lut \in LutsOfCell(cells[i]) : Rectangular(lut)

-----------------------------------------------------------------------------
(* Properties of the patch as a function of the tree *)

\* C24: updating the patched tree once more from the same cells, the library
\* refusing what it refused before, leaves it as it is
C24_PatchIdempotent ==
    Patched => \A i \in 1..Len(tree) : updateLibertyFile(tree[i], cells, env) = tree[i]

\* C24 witness: the patch rewrote a timing group and a leakage group of the
\* library, and a second update of the patched library changes nothing
C24_Witness ==
    /\ Patched
    /\ \E cpt \in TimingPositions : NewTiming(cpt) # OldTiming(cpt)
    /\ \E cp \in LeakagePositions : NewPin(cp) # OldPin(cp)
    /\ updateLibertyFile(tree[1], cells, env) = tree[1]

\* the attributes of a group of the type that the patch is to leave alone
KeptAttrs(type) ==
    IF type = "library" THEN {"nom_voltage", "nom_temperature"}
    ELSE IF type = "pin" THEN {"direction", "function"}
    ELSE IF type = "timing" THEN {"when", "related_pin", "timing_type", "timing_sense"}
    ELSE IF type = "internal_power" THEN {"when", "related_pin", "related_pg_pin"}
    ELSE IF type = "leakage_power" THEN {"when", "related_pg_pin"}
    ELSE {}

\* group g has the type, the names and the kept attributes of group r, and
\* subgroups that are, one by one in order, those of r in the same way
RECURSIVE SameSkeleton(_, _)
SameSkeleton(g, r) ==
    /\ g.type = r.type
    /\ g.names = r.names
    /\ \A n \in KeptAttrs(r.type) : AttrOf(g, n) = AttrOf(r, n)
    /\ Len(g.groups) = Len(r.groups)
    /\ \A i \in 1..Len(r.groups) : SameSkeleton(g.groups[i], r.groups[i])

\* C25: the patched tree has the groups of the tree as read, in their order,
\* none added (no LUT subgroup is created) and none removed, each with its
\* type and names, every pin with its direction and function, every timing
\* group with its timing_sense, every timing, internal_power and leakage_power
\* group with its identity key, and the library with its nom_voltage and
\* nom_temperature, whatever voltage, temperature and process the document holds
C25_SkeletonKept ==
    Patched =>
        /\ Len(tree) = Len(TopGroupsOf(originalLibFile))
        /\ \A i \in 1..Len(tree) : SameSkeleton(tree[i], TopGroupsOf(originalLibFile)[i])

\* C25 witness: a timing group was rewritten from a patch arc that holds a Lut
\* of a kind the group has no subgroup for, and has none after the update; a
\* leakage group was rewritten; the document's voltage is not the library's
C25_Witness ==
    /\ Patched
    /\ AttrOf(tree[1], "nom_voltage") # <<FloatAttr(pvt.voltage)>>
    /\ \E cp \in LeakagePositions : NewPin(cp) # OldPin(cp)
    /\ \E cpt \in TimingPositions :
          /\ SameTriple(ArcsFor(cpt), OldTiming(cpt)) # {}
          /\ NewTiming(cpt) # OldTiming(cpt)
          /\ \E t \in DOMAIN TimingSlots :
                /\ LutNonEmpty(ArcsFor(cpt)[Least(SameTriple(ArcsFor(cpt), OldTiming(cpt)))]
                                  [TimingSlots[t]])
                /\ \A k \in 1..Len(NewTiming(cpt).groups) : NewTiming(cpt).groups[k].type # t

-----------------------------------------------------------------------------
(* Properties of the written tree *)

\* the top-level groups of the patched tree of the run
PatchedGroups ==
    [i \in 1..Len(TopGroupsOf(originalLibFile)) |->
        updateLibertyFile(TopGroupsOf(originalLibFile)[i], cells, env)]

\* C28: when modifyLibertyFile has returned true, the output file has been
\* written and every top-level group of the patched tree is in it
C28_OutputComplete ==
    (Returned /\ result = TRUE) =>
        /\ outputLibFile.state = "written"
        /\ \A i \in 1..Len(PatchedGroups) : PatchedGroups[i] = outputLibFile.group

-----------------------------------------------------------------------------
(* Properties of the result of parseLibertyAndGetCells *)

ReadFailed == op = "parse" /\ pc = "done" /\ ~originalLibFile.readable

\* C29: when the Liberty file cannot be read, parseLibertyAndGetCells returns
\* the default PVT (voltage 0, temperature 0, no process, whatever process was
\* asked for) and no cells, has called si2drPIQuit after si2drPIInit, and has
\* written no document, whether or not a dump file was named
C29_ReadFailure ==
    ReadFailed =>
        /\ pvt = [voltage |-> 0, temperature |-> 0, process |-> <<>>]
        /\ cells = <<>>
        /\ calls = <<"si2drPIInit", "si2drReadLibertyFile", "si2drPIQuit">>
        /\ dumpOut = NoFile

\* C29 witness: an extraction asked for the process SS and for a dump file has
\* returned from an unreadable Liberty file
C29_Witness ==
    /\ ReadFailed
    /\ process = "SS"
    /\ dumpJsonFile # ""
    /\ ~env.noWrite
    /\ pvt.process = <<>>
    /\ dumpOut = NoFile

-----------------------------------------------------------------------------
(* Properties of the matching of tree groups of one key *)

\* the patch cell a named cell group is updated from, <<>> when there is none
CellEntryFor(cellGroup) ==
    IF IsNamed(cellGroup, "cell") /\ CellEntries(cellGroup.names[1]) # {}
    THEN <<cells[Least(CellEntries(cellGroup.names[1]))]>>
    ELSE <<>>

\* pin group `new` is `old` updated from the input entry / the output entry e
InputPinUpdated(e, old, new) ==
    new = updatePowerArcs(e.powerArcs,
              updateTimingArcs(e.timingArcs, updateInputCapacitance(e, old, env), env), env)

OutputPinUpdated(e, old, new) ==
    new = updatePowerArcs(e.powerArcs, updateTimingArcs(e.timingArcs, old, env), env)

\* C27: every tree group is updated from the first patch entry of its key (a
\* cell or a pin: of its name), whatever other tree groups under the same
\* parent have that key and were updated from that entry before it
C27_EntryNotConsumed ==
    Patched =>
        /\ \A c \in 1..Len(originalLibFile.group.groups) :
              CellEntryFor(OldCell(c)) # <<>> =>
                  NewCell(c) = updatePinGroups(CellEntryFor(OldCell(c))[1],
                                  updateLeakages(CellEntryFor(OldCell(c))[1].leakages,
                                                 OldCell(c), env), env)
        /\ \A cp \in PinGroupPositions :
              /\ InputEntryFor(OldCell(cp[1]), OldPin(cp)) # <<>> =>
                    InputPinUpdated(InputEntryFor(OldCell(cp[1]), OldPin(cp))[1],
                                    OldPin(cp), NewPin(cp))
              /\ OutputEntryFor(OldCell(cp[1]), OldPin(cp)) # <<>> =>
                    OutputPinUpdated(OutputEntryFor(OldCell(cp[1]), OldPin(cp))[1],
                                     OldPin(cp), NewPin(cp))
        /\ \A cpt \in TimingPositions :
              SameTriple(ArcsFor(cpt), OldTiming(cpt)) # {} =>
                  NewTiming(cpt) = addTimingArcValues(OldTiming(cpt),
                      ArcsFor(cpt)[Least(SameTriple(ArcsFor(cpt), OldTiming(cpt)))], env)
        /\ \A cpt \in PowerPositions :
              SamePowerKey(PowerArcsFor(cpt), OldTiming(cpt)) # {} =>
                  NewTiming(cpt) = addPowerArcValues(OldTiming(cpt),
                      PowerArcsFor(cpt)[Least(SamePowerKey(PowerArcsFor(cpt), OldTiming(cpt)))],
                      env)
        /\ \A cp \in LeakagePositions :
              SameLeakageKey(LeakagesFor(cp), OldPin(cp)) # {} =>
                  NewPin(cp) = updateLeakagePower(OldPin(cp),
                      LeakagesFor(cp)[Least(SameLeakageKey(LeakagesFor(cp), OldPin(cp)))], env)

\* two positions under one parent
Siblings(x, y) == x # y /\ SubSeq(x, 1, Len(x) - 1) = SubSeq(y, 1, Len(y) - 1)

\* C27 witness: the library holds two cells of one name, both changed by the
\* patch; in one cell two input pins of one name were both changed, two leakage
\* groups of one key and different values both got the value of the one patch
\* entry of that key, and two internal_power groups of one key were both changed
C27_Witness ==
    /\ Patched
    /\ \E c, d \in 1..Len(originalLibFile.group.groups) :
          /\ c # d
          /\ IsNamed(OldCell(c), "cell") /\ OldCell(c).names = OldCell(d).names
          /\ NewCell(c) # OldCell(c) /\ NewCell(d) # OldCell(d)
    /\ \E x, y \in PinGroupPositions :
          /\ Siblings(x, y)
          /\ OldPin(x).names = OldPin(y).names
          /\ DirectionOf(OldPin(x)) = <<"input">> /\ DirectionOf(OldPin(y)) = <<"input">>
          /\ NewPin(x) # OldPin(x) /\ NewPin(y) # OldPin(y)
    /\ \E x, y \in LeakagePositions :
          /\ Siblings(x, y)
          /\ Cardinality(SameLeakageKey(LeakagesFor(x), OldPin(x))) = 1
          /\ SameLeakageKey(LeakagesFor(x), OldPin(x)) = SameLeakageKey(LeakagesFor(y), OldPin(y))
          /\ AttrOf(OldPin(x), "value") # AttrOf(OldPin(y), "value")
          /\ AttrOf(NewPin(x), "value") = AttrOf(NewPin(y), "value")
    /\ \E x, y \in PowerPositions :
          /\ Siblings(x, y)
          /\ SamePowerKey(PowerArcsFor(x), OldTiming(x)) # {}
          /\ SamePowerKey(PowerArcsFor(x), OldTiming(x)) = SamePowerKey(PowerArcsFor(y), OldTiming(y))
          /\ NewTiming(x) # OldTiming(x) /\ NewTiming(y) # OldTiming(y)

-----------------------------------------------------------------------------
(* Properties of the document as a copy of the data model *)

\* C30: the document written for the cells and the pvt of an extraction is
\* read back by the patch loader as these cells and this pvt: the strings, the
\* lists and the Luts that are empty are not in the document and are empty
\* again after the read, and a range is in it with both sides or not at all
C30_DocumentRoundTrip ==
    Dumped =>
        loadJsonToCells([state |-> "ok", doc |-> dumpOut.doc])
            = [ok |-> TRUE, thrown |-> FALSE, cells |-> cells, pvt |-> pvt]

-----------------------------------------------------------------------------
(* Properties of patching a tree with the document extracted from it *)

\* what matching knows a group by: a cell by its name, a pin by its name and
\* direction, a timing, internal_power or leakage_power group by its key; <<>>
\* for the other groups
IdentityOf(g) ==
    IF g.type = "cell" THEN <<"cell", NameOf(g)>>
    ELSE IF g.type = "pin" THEN <<"pin", NameOf(g), TextOf(g, "direction")>>
    ELSE IF g.type = "timing"
    THEN <<"timing", TextOf(g, "when"), TextOf(g, "related_pin"), TextOf(g, "timing_type")>>
    ELSE IF g.type = "internal_power"
    THEN <<"internal_power", TextOf(g, "when"), TextOf(g, "related_pin"),
           TextOf(g, "related_pg_pin")>>
    ELSE IF g.type = "leakage_power"
    THEN <<"leakage_power", TextOf(g, "when"), TextOf(g, "related_pg_pin")>>
    ELSE <<>>

\* no two subgroups of one parent have the same identity, at any depth
RECURSIVE UniqueKeys(_)
UniqueKeys(g) ==
    /\ \A i, j \in 1..Len(g.groups) :
          (i # j /\ IdentityOf(g.groups[i]) # <<>>)
              => IdentityOf(g.groups[i]) # IdentityOf(g.groups[j])
    /\ \A i \in 1..Len(g.groups) : UniqueKeys(g.groups[i])

\* what an extraction of the top-level groups returns
Extraction(topGroups) == ProcessTopGroups(topGroups, <<>>, PVT)

\* a patch of a Liberty file of unique identities with the document extracted
\* from that file, the library refusing nothing
SelfPatch ==
    /\ op = "modify"
    /\ env = NoFaults
    /\ originalLibFile \in ExtractedLibFiles
    /\ UniqueKeys(originalLibFile.group)
    /\ jsonFile = ExtractedFile(originalLibFile)

\* C26: a tree of unique cell names, pin names per cell and direction, and
\* keys of timing, internal_power and leakage_power groups per parent, whose
\* numbers the string codec keeps, is patched with the document extracted from
\* it, and the extraction of the patched tree is the extraction of the tree
C26_ExtractPatchExtract ==
    SelfPatch =>
        /\ pc # "thrown"
        /\ Patched => Extraction(tree) = Extraction(TopGroupsOf(originalLibFile))

====
